---- MODULE Spec2Model ----
(***************************************************************************)
(* Validator control-plane console (ever-node-tools): the command          *)
(* registry, the control session and the election-bid workflow of          *)
(* bin/console.rs and of its older variant src/console.rs.                 *)
(*                                                                         *)
(* Strings are sequences of one-character strings, byte strings are        *)
(* sequences of 0..255, ton::int is a 32-bit signed integer.               *)
(***************************************************************************)
EXTENDS Integers, Sequences, FiniteSets, TLC

VARIABLES
    variant,    \* which console source the process was built from: "bin" | "src"
    profile,    \* build profile: "debug" (overflow checks, panic) | "release" (wrap)
    config,     \* AdnlConsoleConfigJson: [wallet_id, max_factor]
    mode,       \* "batch" (-c commands given) | "interactive" (stdin)
    script,     \* the scheduled commands / the lines still to be read from stdin
    cmd,        \* the line ControlClient::command was last called with
    conn,       \* control session: "Disconnected" | "Connected" | "Closed" (shutdown
                \* returned Ok) | "CloseFailed" (shutdown returned an error)
    pc,         \* "main" | "await" (inside adnl.query().await) | "exit" | "panicked"
    cur,        \* the command being executed (route, name, params, bid step and fields)
    chan,       \* requests sent on the channel and not yet answered
    issued,     \* requests issued by the command being executed, in order
    parsed,     \* replies of the command being executed that its parser accepted
    result,     \* what ControlClient::command returned last
    files,      \* file system: path -> bytes written
    clock,      \* the wall clock, seconds since the epoch (ton::int)
    writes,     \* files written by the command being executed, in order
    lastReply,  \* the reply the channel delivered last
    parserCalls, \* times command_receive was called by the command being executed
    probe       \* input and results of the registry dispatch probe

vars == <<variant, profile, config, mode, script, cmd, conn, pc, cur, chan, issued,
          parsed, result, files, clock, writes, lastReply, parserCalls, probe>>

\* Option<T>: None is the empty sequence, Some(x) the sequence of x alone
None == <<>>
Some(x) == <<x>>

----------------------------------------------------------------------------
(* Bounds of the model *)

\* the wall clock at process start
Now0 == 1600000000
\* how many seconds the wall clock may advance during a session
MaxTicks == 1
\* max_factor values are multiples of 1/(FACTOR_SCALE * FracRes)
FracRes == 2
\* the 32-byte values Key(0) .. Key(HashKeys) are given to the hash parser
HashKeys == 7

(* Program constants *)
INT_MAX == 2147483647
INT_MIN == -INT_MAX - 1
HASH_LEN == 32
FACTOR_SCALE == 65536
\* 0x654C5074, 0x4E73744B, 0x47657424
ELECT_REQ_TAG == 1699500148
ELECT_SIGNED_TAG == 1316189259
RECOVER_TAG == 1197831204
\* a cell holds at most 1023 bits
CELL_MAX_BITS == 1023
\* an Ed25519 signature, the two descriptor bytes of a serialized cell, and the
\* bytes a bag of cells spends on its header and its root list
SIGNATURE_LEN == 64
CELL_DESCR_LEN == 2
BOC_HEADER_LEN == 11

----------------------------------------------------------------------------
(* Generic helpers *)

\* Result<T>: Ok(v), Err(e); Panic(m) is a panic unwinding through the caller
Ok(v) == [tag |-> "ok", val |-> v]
Err(e) == [tag |-> "err", val |-> e]
Panic(m) == [tag |-> "panic", val |-> m]
IsOk(r) == r.tag = "ok"
IsErr(r) == r.tag = "err"
IsPanic(r) == r.tag = "panic"

\* the ? operator: r? followed by Then of the value; an error (or a panic on the
\* way) is what the function returns
Try(r, Then(_)) == IF IsOk(r) THEN Then(r.val) ELSE r

\* Result::map_err
MapErr(r, e(_)) == IF IsErr(r) THEN Err(e(r.val)) ELSE r

\* params.next() of an iterator over the sequence ps, at position i
Nth(ps, i) == IF i <= Len(ps) THEN Some(ps[i]) ELSE None

RECURSIVE IndexOf(_, _, _)
IndexOf(s, c, i) ==
    IF i > Len(s) THEN 0 ELSE IF s[i] = c THEN i ELSE IndexOf(s, c, i + 1)

IsPrefix(p, s) == Len(p) <= Len(s) /\ SubSeq(s, 1, Len(p)) = p

----------------------------------------------------------------------------
(* hex crate: hex::decode, hex::encode_upper *)

HexUpper == <<"0","1","2","3","4","5","6","7","8","9","A","B","C","D","E","F">>
HexLower == <<"0","1","2","3","4","5","6","7","8","9","a","b","c","d","e","f">>

\* a digit table without the lower-case letters
HexValUpperOnly(c) ==
    IF IndexOf(HexUpper, c, 1) > 0 THEN IndexOf(HexUpper, c, 1) - 1 ELSE -1

\* value of a hex digit, -1 when the character is none
HexVal(c) ==
    IF IndexOf(HexUpper, c, 1) > 0 THEN IndexOf(HexUpper, c, 1) - 1
    ELSE IF IndexOf(HexLower, c, 1) > 0 THEN IndexOf(HexLower, c, 1) - 1
    ELSE -1

hex_decode(s) ==
    IF Len(s) % 2 # 0 THEN Err("OddLength")
    ELSE IF \E i \in 1..Len(s) : HexVal(s[i]) < 0 THEN Err("InvalidHexCharacter")
    ELSE Ok([i \in 1..(Len(s) \div 2) |-> 16 * HexVal(s[2*i - 1]) + HexVal(s[2*i])])

hex_encode(b) ==
    [i \in 1..(2 * Len(b)) |->
        IF i % 2 = 1 THEN HexLower[(b[(i + 1) \div 2] \div 16) + 1]
                     ELSE HexLower[(b[i \div 2] % 16) + 1]]

hex_encode_upper(b) ==
    [i \in 1..(2 * Len(b)) |->
        IF i % 2 = 1 THEN HexUpper[(b[(i + 1) \div 2] \div 16) + 1]
                     ELSE HexUpper[(b[i \div 2] % 16) + 1]]

----------------------------------------------------------------------------
(* base64 crate, standard alphabet with padding: base64::decode, encode *)

B64 == <<"A","B","C","D","E","F","G","H","I","J","K","L","M","N","O","P",
         "Q","R","S","T","U","V","W","X","Y","Z","a","b","c","d","e","f",
         "g","h","i","j","k","l","m","n","o","p","q","r","s","t","u","v",
         "w","x","y","z","0","1","2","3","4","5","6","7","8","9","+","/">>

B64Val(c) == IndexOf(B64, c, 1) - 1

\* number of trailing '=' of s (at most 2 are looked at)
B64Pad(s) ==
    IF Len(s) >= 1 /\ s[Len(s)] = "="
    THEN (IF Len(s) >= 2 /\ s[Len(s) - 1] = "=" THEN 2 ELSE 1)
    ELSE 0

\* the i-th 6-bit group of s, 0 beyond the end of the symbols
B64Sextet(s, n, i) == IF i <= n THEN B64Val(s[i]) ELSE 0

\* byte k (from 1) of the bit stream of the first n symbols of s
B64Byte(s, n, k) ==
    LET g == (k - 1) \div 3
        a == B64Sextet(s, n, 4*g + 1)
        b == B64Sextet(s, n, 4*g + 2)
        c == B64Sextet(s, n, 4*g + 3)
        d == B64Sextet(s, n, 4*g + 4)
    IN CASE (k - 1) % 3 = 0 -> a * 4 + (b \div 16)
         [] (k - 1) % 3 = 1 -> (b % 16) * 16 + (c \div 4)
         [] OTHER           -> (c % 4) * 64 + d

\* decoding of the first n symbols of s, which pad '=' follow
B64Decode(s, n, pad) ==
    IF \E i \in 1..n : B64Val(s[i]) < 0 THEN Err("InvalidByte")
    ELSE IF n % 4 = 1 THEN Err("InvalidLength")
    ELSE IF pad > 0 /\ (n % 4 = 0 \/ pad # 4 - (n % 4)) THEN Err("InvalidPadding")
    ELSE IF n % 4 = 2 /\ B64Val(s[n]) % 16 # 0 THEN Err("InvalidLastSymbol")
    ELSE IF n % 4 = 3 /\ B64Val(s[n]) % 4 # 0 THEN Err("InvalidLastSymbol")
    ELSE Ok([k \in 1..((n * 6) \div 8) |-> B64Byte(s, n, k)])

base64_decode(s) == B64Decode(s, Len(s) - B64Pad(s), B64Pad(s))

\* symbol j (from 1) of the encoding of b, '=' in the padding
B64Sym(b, j) ==
    LET g == (j - 1) \div 4
        at(i) == IF i <= Len(b) THEN b[i] ELSE 0
        x == at(3*g + 1)
        y == at(3*g + 2)
        z == at(3*g + 3)
        syms == ((Len(b) * 8) + 5) \div 6
    IN IF j > syms THEN "="
       ELSE CASE (j - 1) % 4 = 0 -> B64[(x \div 4) + 1]
              [] (j - 1) % 4 = 1 -> B64[((x % 4) * 16 + (y \div 16)) + 1]
              [] (j - 1) % 4 = 2 -> B64[((y % 16) * 4 + (z \div 64)) + 1]
              [] OTHER           -> B64[(z % 64) + 1]

base64_encode(b) == [j \in 1..(4 * ((Len(b) + 2) \div 3)) |-> B64Sym(b, j)]

----------------------------------------------------------------------------
(* ton::int arithmetic and text: i32::from_str, format!("{}"), to_be_bytes *)

Digits == <<"0","1","2","3","4","5","6","7","8","9">>
DigitVal(c) == IndexOf(Digits, c, 1) - 1

\* i32::from_str accumulates digit by digit with checked arithmetic, downwards
\* for a negative number
RECURSIVE ParseAcc(_, _, _, _)
ParseAcc(s, i, acc, neg) ==
    IF i > Len(s) THEN Ok(acc)
    ELSE LET d == DigitVal(s[i]) IN
         IF d < 0 THEN Err("InvalidDigit")
         ELSE IF ~neg /\ acc > (INT_MAX - d) \div 10 THEN Err("PosOverflow")
         ELSE IF neg /\ acc < ((INT_MIN + d) + 9) \div 10 THEN Err("NegOverflow")
         ELSE ParseAcc(s, i + 1, IF neg THEN acc * 10 - d ELSE acc * 10 + d, neg)

int_from_str(s) ==
    IF Len(s) = 0 THEN Err("Empty")
    ELSE IF s[1] \in {"+", "-"}
         THEN (IF Len(s) = 1 THEN Err("InvalidDigit")
               ELSE ParseAcc(s, 2, 0, s[1] = "-"))
         ELSE ParseAcc(s, 1, 0, FALSE)

RECURSIVE FormatNat(_)
FormatNat(n) ==
    IF n < 10 THEN <<Digits[n + 1]>>
    ELSE FormatNat(n \div 10) \o <<Digits[(n % 10) + 1]>>

\* format!("{}", n) for a ton::int
FormatInt(n) ==
    IF n >= 0 THEN FormatNat(n)
    ELSE IF n = INT_MIN THEN <<"-">> \o FormatNat(INT_MAX \div 10) \o <<"8">>
    ELSE <<"-">> \o FormatNat(-n)

\* a - b leaves the 32-bit signed range
SubOverflows(a, b) == (b < 0 /\ a > INT_MAX + b) \/ (b > 0 /\ a < INT_MIN + b)

\* two's complement result of a - b when it leaves the range
SubWrapped(a, b) ==
    IF b < 0 THEN ((a + INT_MIN) - b) + INT_MIN
    ELSE (a - INT_MIN) + ((INT_MAX - b) + 1)

\* the `-` of two ton::int: a build with overflow checks panics, one without wraps
SubInt(a, b, prof) ==
    IF ~SubOverflows(a, b) THEN Ok(a - b)
    ELSE IF prof = "debug" THEN Panic("attempt to subtract with overflow")
    ELSE Ok(SubWrapped(a, b))

\* big-endian bytes of a non-negative integer below 2^32, in 4 bytes
BE4(n) == << (n \div 16777216) % 256, (n \div 65536) % 256, (n \div 256) % 256, n % 256 >>
\* u64::to_be_bytes of a non-negative value below 2^32
BE8(n) == <<0, 0, 0, 0>> \o BE4(n)

----------------------------------------------------------------------------
(* Parameter parsing: parse_any, parse_data, parse_int256, parse_int *)

\* failure::Error built by error!/fail!: the message, what it is about, its cause
MkErr(msg, what, cause) == [msg |-> msg, what |-> what, cause |-> cause]

\* str::trim_matches('"')
RECURSIVE TrimQuotes(_)
TrimQuotes(s) ==
    IF Len(s) > 0 /\ s[1] = "\"" THEN TrimQuotes(Tail(s))
    ELSE IF Len(s) > 0 /\ s[Len(s)] = "\"" THEN TrimQuotes(SubSeq(s, 1, Len(s) - 1))
    ELSE s

\* bin/console.rs trims quotes off the value and keeps the cause in the message;
\* src/console.rs passes the value as it is and drops the cause
parse_any(param_opt, name, parse_value(_), v) ==
    IF param_opt = None
    THEN Err(MkErr("you must give", name,
                   IF v = "bin" THEN "insufficient parameters" ELSE "dropped"))
    ELSE MapErr(parse_value(IF v = "bin" THEN TrimQuotes(param_opt[1]) ELSE param_opt[1]),
                LAMBDA e : MkErr("you must give", name, IF v = "bin" THEN e ELSE "dropped"))

data_value(value) == hex_decode(value)

parse_data(param_opt, name, v) == parse_any(param_opt, name, data_value, v)

\* a conversion that takes a slice of any length
try_into_any(b) == Ok(b)

\* <[u8; 32]>::try_from(slice)
try_into_32(b) == IF Len(b) = HASH_LEN THEN Ok(b) ELSE Err("TryFromSliceError")

int256_value(value) ==
    Try(CASE Len(value) = 44 -> base64_decode(value)
          [] Len(value) = 64 -> hex_decode(value)
          [] OTHER -> Err("wrong hash"),
        try_into_32)

parse_int256(param_opt, name, v) == parse_any(param_opt, name, int256_value, v)

parse_int(param_opt, name, v) == parse_any(param_opt, name, int_from_str, v)

\* BlockIdExt::from_str is the block library's: the text form of a block id
\* parses, any other text does not
BlockIdText == <<"(", "-", "1", ",", "8", ",", "1", ")", ":", "A", ":", "B">>
blockid_value(value) ==
    IF value = BlockIdText THEN Ok([block |-> value]) ELSE Err("InvalidBlockId")

parse_blockid(param_opt, name, v) == parse_any(param_opt, name, blockid_value, v)

----------------------------------------------------------------------------
(* The command registry: commands!, SendReceive::send of each command *)

RegistrySrc == <<"newkey", "exportpub", "sign", "addpermkey", "addtempkey",
                 "addvalidatoraddr", "addadnl">>
RegistryBin == RegistrySrc \o <<"bundle", "future_bundle", "getstats",
                 "getconsensusstats", "sendmessage", "getaccountstate">>
Registry(v) == IF v = "bin" THEN RegistryBin ELSE RegistrySrc
Registered(name, v) == \E i \in 1..Len(Registry(v)) : Registry(v)[i] = name

NewKeypair_send == Ok([type |-> "GenerateKeyPair"])

GetStats_send == Ok([type |-> "GetStats"])

GetSessionStats_send == Ok([type |-> "GetSessionStats"])

ExportPub_send(ps, v) ==
    Try(parse_int256(Nth(ps, 1), "key_hash", v), LAMBDA key_hash :
        Ok([type |-> "ExportPublicKey", key_hash |-> key_hash]))

Sign_send(ps, v) ==
    Try(parse_int256(Nth(ps, 1), "key_hash", v), LAMBDA key_hash :
    Try(parse_data(Nth(ps, 2), "data", v), LAMBDA data :
        Ok([type |-> "Sign", key_hash |-> key_hash, data |-> data])))

AddValidatorPermKey_send(ps, v, prof) ==
    Try(parse_int256(Nth(ps, 1), "key_hash", v), LAMBDA key_hash :
    Try(parse_int(Nth(ps, 2), "election_date", v), LAMBDA election_date :
    Try(parse_int(Nth(ps, 3), "expire_at", v), LAMBDA expire_at :
    Try(SubInt(expire_at, election_date, prof), LAMBDA ttl :
        Ok([type |-> "AddValidatorPermanentKey", key_hash |-> key_hash,
            election_date |-> election_date, ttl |-> ttl])))))

\* AddValidatorTempKey and AddValidatorAdnlAddr differ in the request type only
KeyWithTtl_send(type, ps, v, prof, now) ==
    Try(parse_int256(Nth(ps, 1), "permanent_key_hash", v), LAMBDA permanent_key_hash :
    Try(parse_int256(Nth(ps, 2), "key_hash", v), LAMBDA key_hash :
    Try(parse_int(Nth(ps, 3), "expire_at", v), LAMBDA expire_at :
    Try(SubInt(expire_at, now, prof), LAMBDA ttl :
        Ok([type |-> type, permanent_key_hash |-> permanent_key_hash,
            key_hash |-> key_hash, ttl |-> ttl])))))

AddValidatorTempKey_send(ps, v, prof, now) ==
    KeyWithTtl_send("AddValidatorTempKey", ps, v, prof, now)

AddValidatorAdnlAddr_send(ps, v, prof, now) ==
    KeyWithTtl_send("AddValidatorAdnlAddress", ps, v, prof, now)

\* a range check that lets the category 16 through
AddAdnlAddr_send_upto16(ps, v) ==
    Try(parse_int256(Nth(ps, 1), "key_hash", v), LAMBDA key_hash :
    Try(parse_int(Nth(ps, 2), "category", v), LAMBDA category :
        IF category < 0 \/ category > 16
        THEN Err(MkErr("category must be not negative and less than 16", "category", "range"))
        ELSE Ok([type |-> "AddAdnlId", key_hash |-> key_hash, category |-> category])))

AddAdnlAddr_send(ps, v) ==
    Try(parse_int256(Nth(ps, 1), "key_hash", v), LAMBDA key_hash :
    Try(parse_int(Nth(ps, 2), "category", v), LAMBDA category :
        IF category < 0 \/ category > 15
        THEN Err(MkErr("category must be not negative and less than 16", "category", "range"))
        ELSE Ok([type |-> "AddAdnlId", key_hash |-> key_hash, category |-> category])))

Bundle_send(ps, v) ==
    Try(parse_blockid(Nth(ps, 1), "block_id", v), LAMBDA block_id :
        Ok([type |-> "GetBundle", block_id |-> block_id]))

\* the list of previous blocks takes the second id when it parses
PrevBlockIds(first, second) ==
    IF IsOk(second) THEN <<first, second.val>> ELSE <<first>>

FutureBundle_send(ps, v) ==
    Try(parse_blockid(Nth(ps, 1), "block_id", v), LAMBDA first :
        Ok([type |-> "GetFutureBundle",
            prev_block_ids |-> PrevBlockIds(first, parse_blockid(Nth(ps, 2), "block_id", v))]))

\* std::fs::read of the file system fs
fs_read(fs, path) ==
    IF path \in DOMAIN fs THEN Ok(fs[path]) ELSE Err("No such file or directory")

SendMessage_send(ps, fs) ==
    IF Nth(ps, 1) = None THEN Err(MkErr("insufficient parameters", "filename", "insufficient parameters"))
    ELSE Try(MapErr(fs_read(fs, ps[1]), LAMBDA e : MkErr("Can't read file", ps[1], e)),
             LAMBDA body : Ok([type |-> "SendMessage", body |-> body]))

GetAccountState_send(ps) ==
    IF Nth(ps, 1) = None THEN Err(MkErr("insufficient parameters", "account", "insufficient parameters"))
    ELSE Ok([type |-> "GetAccountState", account_address |-> ps[1]])

NotSupported(name) == Err(MkErr("command not supported", name, "unregistered"))

command_send(name, ps, v, prof, now, fs) ==
    IF ~Registered(name, v) THEN NotSupported(name)
    ELSE CASE name = "newkey" -> NewKeypair_send
           [] name = "exportpub" -> ExportPub_send(ps, v)
           [] name = "sign" -> Sign_send(ps, v)
           [] name = "addpermkey" -> AddValidatorPermKey_send(ps, v, prof)
           [] name = "addtempkey" -> AddValidatorTempKey_send(ps, v, prof, now)
           [] name = "addvalidatoraddr" -> AddValidatorAdnlAddr_send(ps, v, prof, now)
           [] name = "addadnl" -> AddAdnlAddr_send(ps, v)
           [] name = "bundle" -> Bundle_send(ps, v)
           [] name = "future_bundle" -> FutureBundle_send(ps, v)
           [] name = "getstats" -> GetStats_send
           [] name = "getconsensusstats" -> GetSessionStats_send
           [] name = "sendmessage" -> SendMessage_send(ps, fs)
           [] name = "getaccountstate" -> GetAccountState_send(ps)

----------------------------------------------------------------------------
(* SendReceive::receive of each command, command_receive *)

\* what a receive hands back on success: the description, the raw bytes, and
\* the file it wrote on the way (None or Some([path, data]))
Answered(text, bytes, write) == Ok([text |-> text, bytes |-> bytes, write |-> write])

\* adnl::common::serialize of a TL object
serialize(object) == <<[tl |-> object]>>

\* a receive without the downcast: any answer passes for a Success
Default_receive_any(answer) == Answered(<<"success">>, <<>>, None)

\* a default receive that hands the answer back as the raw bytes
Default_receive_echo(answer) ==
    IF answer.type # "Success" THEN Err(answer)
    ELSE Answered(<<"success">>, serialize(answer), None)

\* the default receive: answer.downcast::<Success>()
Default_receive(answer) ==
    IF answer.type # "Success" THEN Err(answer)
    ELSE Answered(<<"success">>, <<>>, None)

NewKeypair_receive(answer) ==
    IF answer.type # "KeyHash" THEN Err(answer)
    ELSE Answered(<<"received public key hash:", hex_encode(answer.key_hash),
                    base64_encode(answer.key_hash)>>, answer.key_hash, None)

\* PublicKey::key() is None for the constructors that carry no key
ExportPub_receive(answer) ==
    IF answer.type # "PublicKey" THEN Err(answer)
    ELSE IF answer.key = None THEN Panic("called Option::unwrap() on a None value")
    ELSE Answered(<<"imported key:", hex_encode(answer.key[1]),
                    base64_encode(answer.key[1])>>, answer.key[1], None)

\* a receive whose report holds the hex text only
Sign_receive_hex_only(answer) ==
    IF answer.type # "Signature" THEN Err(answer)
    ELSE Answered(<<"got signature:", hex_encode(answer.signature.buf)>>,
                  answer.signature, None)

\* the signature is the buffer buf; signer and over tell whose it is and of what
Sign_receive(answer) ==
    IF answer.type # "Signature" THEN Err(answer)
    ELSE Answered(<<"got signature:", hex_encode(answer.signature.buf),
                    base64_encode(answer.signature.buf)>>, answer.signature, None)

GetStats_receive(answer) ==
    IF answer.type # "Stats" THEN Err(answer)
    ELSE Answered(<<"stats", answer.stats>>, serialize(answer), None)

GetSessionStats_receive(answer) ==
    IF answer.type # "SessionStats" THEN Err(answer)
    ELSE Answered(<<"session stats", answer.stats>>, serialize(answer), None)

\* the file name is taken with unwrap() once the answer is there
GetAccountState_receive(answer, ps) ==
    IF answer.type # "FullAccountState" THEN Err(answer)
    ELSE IF Nth(ps, 2) = None THEN Panic("called Option::unwrap() on a None value")
    ELSE Answered(<<"account state:", answer.data>>, answer.data,
                  Some([path |-> ps[2], data |-> answer.data]))

command_receive(name, answer, ps, v) ==
    IF ~Registered(name, v) THEN Err(answer)
    ELSE CASE name = "newkey" -> NewKeypair_receive(answer)
           [] name = "exportpub" -> ExportPub_receive(answer)
           [] name = "sign" -> Sign_receive(answer)
           [] name = "getstats" -> GetStats_receive(answer)
           [] name = "getconsensusstats" -> GetSessionStats_receive(answer)
           [] name = "getaccountstate" -> GetAccountState_receive(answer, ps)
           [] OTHER -> Default_receive(answer)

----------------------------------------------------------------------------
(* ControlClient::process_command, after adnl.query().await has returned *)

\* a reply of the channel: the transport failed, or an answer arrived
ChannelError == [kind |-> "error"]
Arrived(answer) == [kind |-> "answer", answer |-> answer]

\* a process_command that hands every answer to the parser, the error variant
\* included
process_reply_parser_first(name, query, reply, ps, v) ==
    IF reply.kind = "error"
    THEN [res |-> Err(MkErr("Error receiving answer", query, "channel")), parser |-> FALSE]
    ELSE [res |-> MapErr(command_receive(name, reply.answer, ps, v),
                         LAMBDA answer : MkErr("Wrong response to", query, answer)),
          parser |-> TRUE]

\* the outcome of process_command for the query sent, given the channel's reply:
\* res is what it returns, parser tells whether command_receive was called
process_reply(name, query, reply, ps, v) ==
    IF reply.kind = "error"
    THEN [res |-> Err(MkErr("Error receiving answer", query, "channel")), parser |-> FALSE]
    ELSE IF reply.answer.type = "ControlQueryError"
    THEN [res |-> Err(MkErr("Error response to", query, reply.answer)), parser |-> FALSE]
    ELSE [res |-> MapErr(command_receive(name, reply.answer, ps, v),
                         LAMBDA answer : MkErr("Wrong response to", query, answer)),
          parser |-> TRUE]

\* AdnlClient::query puts one request on the channel; its await ends when the
\* reply to it has been taken off
channel_query(ch, query) == Append(ch, query)
\* a channel whose answered request stays outstanding
channel_kept(ch) == ch
channel_answered(ch) == Tail(ch)

----------------------------------------------------------------------------
(* Cells and files: BuilderData::with_raw, append_reference, serialize_toc,  *)
(* std::fs::write                                                            *)

with_raw(data, bytes) ==
    IF bytes * 8 > CELL_MAX_BITS THEN Err("CellOverflow")
    ELSE Ok([data |-> data, bytes |-> bytes, refs |-> <<>>])

append_reference(cell, child) == [cell EXCEPT !.refs = Append(@, child)]

\* the bytes the cells cs and the cells below them take in a bag of cells: the
\* descriptors, the data and one index byte for every reference
RECURSIVE cells_len(_)
cells_len(cs) ==
    IF cs = <<>> THEN 0
    ELSE CELL_DESCR_LEN + Head(cs).bytes + Len(Head(cs).refs)
         + cells_len(Head(cs).refs) + cells_len(Tail(cs))

\* a serialization that has lost the referenced cells
serialize_toc_root_only(cell) ==
    <<[boc |-> [cell EXCEPT !.refs = <<>>],
       len |-> BOC_HEADER_LEN + CELL_DESCR_LEN + cell.bytes]>>

\* the canonical serialization of a tree of cells, kept as one item: the tree
\* and the number of bytes it takes
serialize_toc(cell) == <<[boc |-> cell, len |-> BOC_HEADER_LEN + cells_len(<<cell>>)]>>

\* a path in a directory that does not exist cannot be written
NoDirPath == <<"/","n","o","d","i","r","/","q",".","b","o","c">>
fs_write(fs, path, data) ==
    IF path = NoDirPath THEN Err("No such file or directory")
    ELSE Ok([q \in (DOMAIN fs) \cup {path} |-> IF q = path THEN data ELSE fs[q]])

----------------------------------------------------------------------------
(* ControlClient::process_election_bid *)

\* a verification that accepts every signature
verify_any(pub_key, data, signature) == TRUE

\* a verification that checks the signer and not the bytes signed
verify_signer_only(pub_key, data, signature) == signature.signer = pub_key

\* KeyOption::verify: an Ed25519 signature is the pair (signer, bytes signed)
verify(pub_key, data, signature) ==
    signature.signer = pub_key /\ signature.over = data

MasterchainPrefix == <<"-", "1", ":">>

wallet_value(value) ==
    IF ~IsPrefix(MasterchainPrefix, value) THEN Err("use masterchain wallet")
    ELSE hex_decode(SubSeq(value, 4, Len(value)))

parse_wallet_id(cfg, v) ==
    IF v = "bin" THEN parse_any(cfg.wallet_id, "wallet_id", wallet_value, v)
    ELSE parse_int256(cfg.wallet_id, "wallet_id", v)

\* (max_factor * 65536.0) as u32, max_factor given in 1/(FACTOR_SCALE * FracRes)
factor_as_u32(m) == m \div FracRes

NoBid == [wallet_id |-> <<>>, elect_time |-> 0, expire_time |-> 0, max_factor |-> 0,
          perm |-> <<>>, pub_key |-> <<>>, adnl |-> <<>>, path |-> None, now |-> 0]

\* the checks made before the first process_command: Ok(the bid so far) or Err
bid_precheck(ps, cfg, v, now) ==
    Try(parse_wallet_id(cfg, v), LAMBDA wallet_id :
    Try(parse_int(Nth(ps, 1), "elect_time", v), LAMBDA elect_time :
        IF elect_time <= 0
        THEN Err(MkErr("<elect-utime> must be a positive integer", "elect_time", "range"))
        ELSE
    Try(parse_int(Nth(ps, 2), "expire_time", v), LAMBDA expire_time :
        IF expire_time <= elect_time
        THEN Err(MkErr("<expire-utime> must be a grater than elect_time", "expire_time", "range"))
        ELSE IF cfg.max_factor = None
        THEN Err(MkErr("you must give max_factor as real", "max_factor", "insufficient parameters"))
        ELSE IF cfg.max_factor[1] < 1 * FACTOR_SCALE * FracRes
                \/ cfg.max_factor[1] > 100 * FACTOR_SCALE * FracRes
        THEN Err(MkErr("<max-factor> must be a real number 1..100", "max_factor", "range"))
        ELSE Ok([NoBid EXCEPT !.wallet_id = wallet_id,
                              !.elect_time = elect_time,
                              !.expire_time = expire_time,
                              !.max_factor = factor_as_u32(cfg.max_factor[1]),
                              !.path = Nth(ps, 3),
                              !.now = now]))))

\* the bytes the remote is asked to sign (validator-elect-req.fif)
data_to_sign(bid) ==
    BE4(ELECT_REQ_TAG) \o BE4(bid.elect_time) \o BE4(bid.max_factor)
        \o bid.wallet_id \o bid.adnl

\* a bid that asks for a new key at every step
BidCommandRepeating(k, bid) == [name |-> "newkey", ps |-> <<>>]

\* a bid whose temporary key expires at the election time
BidCommandTempElect(k, bid) ==
    LET perm_str == hex_encode_upper(bid.perm)
        adnl_str == hex_encode_upper(bid.adnl)
        elect_time_str == FormatInt(bid.elect_time)
        expire_time_str == FormatInt(bid.expire_time)
    IN CASE k = 1 -> [name |-> "newkey", ps |-> <<>>]
         [] k = 2 -> [name |-> "exportpub", ps |-> <<perm_str>>]
         [] k = 3 -> [name |-> "addpermkey", ps |-> <<perm_str, elect_time_str, expire_time_str>>]
         [] k = 4 -> [name |-> "addtempkey", ps |-> <<perm_str, perm_str, elect_time_str>>]
         [] k = 5 -> [name |-> "newkey", ps |-> <<>>]
         [] k = 6 -> [name |-> "addadnl", ps |-> <<adnl_str, <<"0">> >>]
         [] k = 7 -> [name |-> "addvalidatoraddr", ps |-> <<perm_str, adnl_str, elect_time_str>>]
         [] k = 8 -> [name |-> "sign", ps |-> <<perm_str, hex_encode_upper(data_to_sign(bid))>>]

\* the k-th process_command of the bid: its command name and parameters
BidCommand(k, bid) ==
    LET perm_str == hex_encode_upper(bid.perm)
        adnl_str == hex_encode_upper(bid.adnl)
        elect_time_str == FormatInt(bid.elect_time)
        expire_time_str == FormatInt(bid.expire_time)
    IN CASE k = 1 -> [name |-> "newkey", ps |-> <<>>]
         [] k = 2 -> [name |-> "exportpub", ps |-> <<perm_str>>]
         [] k = 3 -> [name |-> "addpermkey", ps |-> <<perm_str, elect_time_str, expire_time_str>>]
         [] k = 4 -> [name |-> "addtempkey", ps |-> <<perm_str, perm_str, expire_time_str>>]
         [] k = 5 -> [name |-> "newkey", ps |-> <<>>]
         [] k = 6 -> [name |-> "addadnl", ps |-> <<adnl_str, <<"0">> >>]
         [] k = 7 -> [name |-> "addvalidatoraddr", ps |-> <<perm_str, adnl_str, elect_time_str>>]
         [] k = 8 -> [name |-> "sign", ps |-> <<perm_str, hex_encode_upper(data_to_sign(bid))>>]

BidSteps == 8

\* a bid that makes up its permanent key hash itself
bid_store_minted(k, bid, bytes) ==
    CASE k = 1 -> [bid EXCEPT !.perm = [i \in 1..HASH_LEN |-> i]]
      [] k = 2 -> [bid EXCEPT !.pub_key = bytes]
      [] k = 5 -> [bid EXCEPT !.adnl = bytes]
      [] OTHER -> bid

\* what the bid keeps of the bytes the k-th command returned
bid_store(k, bid, bytes) ==
    CASE k = 1 -> [bid EXCEPT !.perm = bytes]
      [] k = 2 -> [bid EXCEPT !.pub_key = bytes]
      [] k = 5 -> [bid EXCEPT !.adnl = bytes]
      [] OTHER -> bid

DefaultBidPath == <<"v","a","l","i","d","a","t","o","r","-","q","u","e","r","y",".","b","o","c">>

\* query_id: now() as u64 read after the verification in bin/console.rs, the
\* ton::int read on entry in src/console.rs
query_id_bytes(bid, v, now) == IF v = "bin" THEN BE8(now) ELSE BE4(bid.now)

\* everything after the sign reply: verify, build (validator-elect-signed.fif),
\* serialize, write. [res |-> what the bid returns, fs |-> the file system after]
bid_finish(bid, signature, v, now, fs) ==
    LET data == BE4(ELECT_SIGNED_TAG) \o query_id_bytes(bid, v, now) \o bid.pub_key
                  \o BE4(bid.elect_time) \o BE4(bid.max_factor) \o bid.adnl
        body == with_raw(data, Len(data))
        cell == append_reference(body.val, with_raw(signature, Len(signature.buf)).val)
        bytes == serialize_toc(cell)
        path == IF bid.path = None THEN DefaultBidPath ELSE bid.path[1]
        written == fs_write(fs, path, bytes)
    IN IF ~IsOk(try_into_32(bid.pub_key))
       THEN [res |-> Err(MkErr("TryFromSliceError", "pub_key", "length")), fs |-> fs]
       ELSE IF ~verify(bid.pub_key, data_to_sign(bid), signature)
       THEN [res |-> Err(MkErr("bad signature", "sign", "verify")), fs |-> fs]
       ELSE IF ~IsOk(body)
       THEN [res |-> Err(MkErr("CellOverflow", "body", "length")), fs |-> fs]
       ELSE IF ~IsOk(written)
       THEN [res |-> Err(MkErr("io", path, written.val)), fs |-> fs]
       ELSE [res |-> Answered(
                IF v = "bin" THEN <<"Message body is", [base64 |-> bytes], "saved to path", path>>
                             ELSE <<"Message body is", path>>,
                bytes, Some([path |-> path, data |-> bytes])),
             fs |-> written.val]

----------------------------------------------------------------------------
(* The remote end of the channel: what it may answer to a query *)

Key(n) == [i \in 1..HASH_LEN |-> (n * 37 + i * 7) % 256]

\* key hashes the remote hands out, public keys it exports or signs with
Keys == {Key(1), Key(2)}
ExportedKey == Key(3)
Signers == {Key(3), Key(4)}

\* the bytes with their first byte changed
Corrupt(d) == IF d = <<>> THEN <<1>> ELSE <<(d[1] + 1) % 256>> \o Tail(d)
\* the bytes with one bit of their last byte flipped
CorruptLast(d) ==
    IF d = <<>> THEN <<1>>
    ELSE [d EXCEPT ![Len(d)] = IF @ % 2 = 0 THEN @ + 1 ELSE @ - 1]

\* the 64 bytes of the signature of the key p over the bytes d
SigBytes(p, d) ==
    [i \in 1..SIGNATURE_LEN |->
        (p[1] + 3 * i + Len(d) + (IF d = <<>> THEN 0 ELSE d[1] + d[Len(d)])) % 256]
Sig(p, d) == [signer |-> p, over |-> d, buf |-> SigBytes(p, d)]

Answers(query) ==
    LET over == IF query.type = "Sign" THEN query.data ELSE <<>> IN
    {[type |-> "Success"]}
    \cup {[type |-> "KeyHash", key_hash |-> k] : k \in Keys}
    \cup {[type |-> "PublicKey", key |-> Some(ExportedKey)], [type |-> "PublicKey", key |-> None]}
    \cup {[type |-> "Signature", signature |-> Sig(p, over)] : p \in Signers}
    \cup {[type |-> "Signature", signature |-> Sig(ExportedKey, d)] :
             d \in {Corrupt(over), CorruptLast(over)}}
    \cup {[type |-> "ControlQueryError", code |-> c, message |-> <<"e", c>>] : c \in {1, 2}}
    \cup {[type |-> "Stats", stats |-> <<>>], [type |-> "SessionStats", stats |-> <<>>]}
    \cup {[type |-> "FullAccountState", data |-> <<7>>]}

Replies(query) == {ChannelError} \cup {Arrived(a) : a \in Answers(query)}

----------------------------------------------------------------------------
(* Inputs: configuration files and command lines *)

HexK1 == hex_encode_upper(Key(1))
B64K1 == base64_encode(Key(1))
BadHash == <<"1", "1">>
HashToks == {HexK1, B64K1, BadHash}

NotInt == <<"q", "w", "e">>
TtlToks == {FormatInt(INT_MIN), FormatInt(-1), FormatInt(1), FormatInt(Now0 + 5),
            FormatInt(INT_MAX), NotInt}
CategoryToks == {FormatInt(-1), FormatInt(0), FormatInt(15), FormatInt(16), NotInt}
DataToks == {<<"0", "A", "4", "D">>, <<"Q", "Q">>}
OutPath == <<"o","u","t",".","b","o","c">>
QuotedPath == <<"\"","q",".","b","o","c","\"">>
OpenQuote == <<"\"","q">>
MsgPath == <<"m","s","g",".","b","o","c">>
Account == <<"-","1",":","5","5">>

WalletPrefixed == MasterchainPrefix \o hex_encode(Key(5))
WalletRaw == hex_encode(Key(5))
WalletBadHex == MasterchainPrefix \o <<"z", "z">>
WalletShort == MasterchainPrefix \o <<"a", "b", "c", "d">>
One == FACTOR_SCALE * FracRes
Wallets == {Some(WalletPrefixed), Some(WalletRaw), Some(WalletBadHex), Some(WalletShort), None}
Factors == {None, Some(One - 1), Some(One), Some(One + 1), Some(100 * One), Some(100 * One + 1)}

\* a configuration each variant accepts
GoodConfig(v) ==
    [wallet_id |-> IF v = "bin" THEN Some(WalletPrefixed) ELSE Some(WalletRaw),
     max_factor |-> Some(One + 1)]
Configs ==
    {[wallet_id |-> w, max_factor |-> Some(One + 1)] : w \in Wallets}
    \cup {[wallet_id |-> w, max_factor |-> f] : w \in {Some(WalletPrefixed), Some(WalletRaw)}, f \in Factors}

Soon == FormatInt(Now0 + 5)
Later == FormatInt(Now0 + 9)
Past == FormatInt(Now0 - 1)

\* an election in the future, expiring after it
BaseBid == <<"election-bid", Soon, Later>>

BidLines ==
    {BaseBid,
     <<"election-bid", Past, Soon>>,
     <<"election-bid", FormatInt(1), Past>>,
     <<"election-bid", Soon, Later, OutPath>>,
     <<"election-bid", Soon, Later, NoDirPath>>,
     <<"election-bid">>,
     <<"election-bid", Soon>>,
     <<"election-bid", NotInt, Later>>,
     <<"election-bid", Soon, NotInt>>,
     <<"election-bid", FormatInt(0), Later>>,
     <<"election-bid", FormatInt(-1), Later>>,
     <<"election-bid", Soon, Soon>>,
     <<"election-bid", Later, Soon>>,
     <<"ebid", FormatInt(0), Later>>,
     <<"election_bid", Soon, Soon>>}

RegistryLines ==
    {<<"newkey">>, <<"getstats">>, <<"getconsensusstats">>, <<"exportpub">>}
    \cup {<<"exportpub", h>> : h \in HashToks}
    \cup {<<"sign", HexK1>>}
    \cup {<<"sign", h, d>> : h \in {HexK1, B64K1, BadHash}, d \in DataToks}
    \cup {<<"addpermkey", HexK1>>, <<"addpermkey", HexK1, FormatInt(1)>>,
          <<"addpermkey", BadHash, FormatInt(1), Soon>>}
    \cup {<<"addpermkey", HexK1, d, e>> : d \in TtlToks, e \in TtlToks}
    \cup {<<"addtempkey", HexK1, B64K1>>, <<"addtempkey", HexK1, BadHash, FormatInt(1)>>}
    \cup {<<"addtempkey", HexK1, B64K1, e>> : e \in TtlToks}
    \cup {<<"addvalidatoraddr", HexK1>>}
    \cup {<<"addvalidatoraddr", B64K1, HexK1, e>> : e \in TtlToks}
    \cup {<<"addadnl", HexK1>>}
    \cup {<<"addadnl", HexK1, c>> : c \in CategoryToks}
    \cup {<<"bundle">>, <<"bundle", BlockIdText>>, <<"bundle", NotInt>>}
    \cup {<<"future_bundle">>, <<"future_bundle", BlockIdText>>,
          <<"future_bundle", BlockIdText, BlockIdText>>, <<"future_bundle", BlockIdText, NotInt>>}
    \cup {<<"sendmessage">>, <<"sendmessage", MsgPath>>, <<"sendmessage", OutPath>>}
    \cup {<<"getaccountstate">>, <<"getaccountstate", Account>>,
          <<"getaccountstate", Account, OutPath>>, <<"getaccountstate", Account, NoDirPath>>}
    \cup {<<"get_validator_status">>, <<"quit">>, <<"newkey", OpenQuote>>}

\* the JSON texts of a masterchain state with its extra and of one without
SampleText == <<123, 1>>
NoExtraText == <<123, 2>>

\* the zerostate files, and the lines that extract a config param from them
ZsPath == <<"z","s",".","j","s","o","n">>
NoExtraPath == <<"n","o","x",".","j","s","o","n">>
ConfigLines ==
    {<<"cparam">>, <<"cparam", FormatInt(23)>>, <<"cparam", NotInt, ZsPath>>,
     <<"cparam", FormatInt(-1), ZsPath>>, <<"cparam", FormatInt(23), NoDirPath>>}
    \cup {<<c, FormatInt(i), z>> :
            c \in {"cparam", "config_param"}, i \in {0, 5, 7, 9, 23},
            z \in {ZsPath, NoExtraPath, MsgPath}}
    \cup {<<"cparam", FormatInt(i), ZsPath, o>> :
            i \in {5, 7, 9, 23}, o \in {OutPath, NoDirPath}}

LocalLines == {<<"test">>, <<"recover_stake">>, <<"recover_stake", OutPath>>,
               <<"recover_stake", NoDirPath>>, <<"recover_stake", QuotedPath>>}
              \cup ConfigLines

Variants == {"bin", "src"}
Profiles == {"debug", "release"}
Modes == {"batch", "interactive"}

Session(v, p, m, c, sc) ==
    [variant |-> v, profile |-> p, mode |-> m, config |-> c, script |-> sc]

\* a session's input: how the console was built and started, its configuration
\* file, and the scheduled commands (batch) or the lines on stdin (interactive).
\* Every line is run by both variants under both build profiles; the bid is run
\* under every configuration, and every bid line under a configuration the
\* variant accepts; the interactive loop reads the lines that tell it from the
\* batch loop.
Scenarios ==
    {Session(v, p, "batch", GoodConfig(v), <<l>>) :
        v \in Variants, p \in Profiles, l \in RegistryLines \cup LocalLines}
    \cup {Session(v, "release", "batch", GoodConfig(v), <<l>>) : v \in Variants, l \in BidLines}
    \cup {Session(v, "release", "batch", c, <<BaseBid>>) : v \in Variants, c \in Configs}
    \cup {Session(v, p, m, GoodConfig(v), <<BaseBid>>) :
            v \in Variants, p \in Profiles, m \in Modes}
    \cup {Session(v, "release", "interactive", GoodConfig(v), sc) :
            v \in Variants,
            sc \in {<<>>, << <<>> >>, << <<"newkey">>, <<"quit">> >>, << <<"quit">>, <<"newkey">> >>,
                    << <<"exportpub">>, <<>>, <<"newkey">> >>}}
    \cup {Session(v, "release", "batch", GoodConfig(v), sc) :
            v \in Variants,
            sc \in {<<>>, << <<>> >>, << <<"exportpub">>, <<"newkey">> >>,
                    << <<>>, <<"newkey">> >>,
                    << <<"getaccountstate", Account>>, <<"newkey">> >>}}

\* the files present when the process starts
InitFiles ==
    [q \in {MsgPath, ZsPath, NoExtraPath} |->
        CASE q = MsgPath -> <<1, 2, 3>>
          [] q = ZsPath -> SampleText
          [] q = NoExtraPath -> NoExtraText]

----------------------------------------------------------------------------
(* ControlClient::command: tokenizing and routing *)

\* number of '"' in a word
RECURSIVE Quotes(_)
Quotes(w) ==
    IF w = <<>> THEN 0 ELSE (IF Head(w) = "\"" THEN 1 ELSE 0) + Quotes(Tail(w))

RECURSIVE Unquote(_)
Unquote(w) ==
    IF w = <<>> THEN <<>>
    ELSE IF Head(w) = "\"" THEN Unquote(Tail(w)) ELSE <<Head(w)>> \o Unquote(Tail(w))

\* shell_words::split on a line whose words hold no blanks: a quote left open
\* is an error, balanced quotes are removed
shell_words_split(line) ==
    IF \E i \in 2..Len(line) : Quotes(line[i]) % 2 = 1 THEN Err("missing closing quote")
    ELSE Ok([i \in 1..Len(line) |-> IF i = 1 THEN line[i] ELSE Unquote(line[i])])

split_words(line, v) == IF v = "bin" THEN shell_words_split(line) ELSE Ok(line)

\* the quotes at the end of a word taken off
RECURSIVE TrimEndQuotes(_)
TrimEndQuotes(w) ==
    IF Len(w) > 0 /\ w[Len(w)] = "\"" THEN TrimEndQuotes(SubSeq(w, 1, Len(w) - 1)) ELSE w

\* command.trim_matches('"') of the batch loop: it works on the whole line, so
\* of a parameter at the end of the line it takes the closing quotes only
\* (no line here begins with a quote)
batch_trim(line) ==
    IF Len(line) < 2 THEN line
    ELSE [line EXCEPT ![Len(line)] = TrimEndQuotes(@)]

\* a match on the first word that knows one name only of each workflow
route_of_one_name(name, v) ==
    IF v = "bin"
    THEN CASE name = "recover_stake" -> "recover_stake"
           [] name = "election-bid" -> "bid"
           [] name = "config_param" -> "config_param"
           [] OTHER -> "command"
    ELSE CASE name = "test" -> "test"
           [] name = "election-bid" -> "bid"
           [] OTHER -> "command"

route_of(name, v) ==
    IF v = "bin"
    THEN CASE name = "recover_stake" -> "recover_stake"
           [] name \in {"ebid", "election-bid", "election_bid"} -> "bid"
           [] name \in {"config_param", "cparam"} -> "config_param"
           [] OTHER -> "command"
    ELSE CASE name = "test" -> "test"
           [] name = "election-bid" -> "bid"
           [] OTHER -> "command"

\* the parameters process_test hands to process_election_bid
TestWallet == <<"k","f","-","v","F","9","t","D","9","A","t","q","o","k","5","y","A","6","n","4","y","G","U","j","E","M","i","M","E","l","B","i","0","R","K","f","6","I","P","q","o","b","1","n","Y","2","d","P">>
TestParams(key) == <<TestWallet, FormatInt(1567633899), <<"2", ".", "7">>, hex_encode_upper(key)>>

DefaultRecoverPath == <<"r","e","c","o","v","e","r","-","q","u","e","r","y",".","b","o","c">>

\* a recover-stake builder with a query id of 4 bytes
recover_stake_short(ps, now, fs) ==
    [res |-> Answered(<<"Message body is", [base64 |-> serialize_toc(with_raw(BE4(RECOVER_TAG) \o BE4(now), 8).val)],
                        "saved to path", DefaultRecoverPath>>,
                      serialize_toc(with_raw(BE4(RECOVER_TAG) \o BE4(now), 8).val),
                      Some([path |-> DefaultRecoverPath,
                            data |-> serialize_toc(with_raw(BE4(RECOVER_TAG) \o BE4(now), 8).val)])),
     fs |-> fs]

\* process_recover_stake: [res, fs]
recover_stake(ps, now, fs) ==
    LET data == BE4(RECOVER_TAG) \o BE8(now)
        body == with_raw(data, Len(data))
        bytes == serialize_toc(body.val)
        path == IF Nth(ps, 1) = None THEN DefaultRecoverPath ELSE ps[1]
        written == fs_write(fs, path, bytes)
    IN IF ~IsOk(body) THEN [res |-> Err(MkErr("CellOverflow", "body", "length")), fs |-> fs]
       ELSE IF ~IsOk(written) THEN [res |-> Err(MkErr("io", path, written.val)), fs |-> fs]
       ELSE [res |-> Answered(<<"Message body is", [base64 |-> bytes], "saved to path", path>>,
                              bytes, Some([path |-> path, data |-> bytes])),
             fs |-> written.val]

----------------------------------------------------------------------------
(* ControlClient::process_config_param *)

DefaultConfigPath == <<"c","o","n","f","i","g","-","p","a","r","a","m",".","b","o","c">>

\* the cell config param 23 refers to (BlockLimits, 40 bytes), and two others
LimitsCell == [data |-> [i \in 1..40 |-> i], bytes |-> 40, refs |-> <<>>]
CellA == [data |-> <<10>>, bytes |-> 1, refs |-> <<>>]
CellB == [data |-> <<11, 12>>, bytes |-> 2, refs |-> <<>>]

\* a masterchain state with its extra: config_params maps an index to the
\* entry's slice, of which the references matter
SampleState ==
    [custom |-> Some([p \in {5, 7, 23} |->
                        CASE p = 23 -> [refs |-> <<LimitsCell>>]
                          [] p = 7 -> [refs |-> <<>>]
                          [] p = 5 -> [refs |-> <<CellA, CellB>>]])]
\* a state without McStateExtra
NoExtraState == [custom |-> None]

\* serde_json::from_str and ton_block_json::parse_state: the two texts give
\* their states, any other text is refused
parse_state(text) ==
    CASE text = SampleText -> Ok(SampleState)
      [] text = NoExtraText -> Ok(NoExtraState)
      [] OTHER -> Err("expected value")

\* a lookup that takes the last reference of the entry
last_reference(entry, index) ==
    IF entry.refs = <<>>
    THEN Err(MkErr("Can't parse config param", index, "wrong format - no reference"))
    ELSE Ok([index |-> index, cell |-> entry.refs[Len(entry.refs)]])

\* reference_opt(0) of the entry found
first_reference(entry, index) ==
    IF entry.refs = <<>>
    THEN Err(MkErr("Can't parse config param", index, "wrong format - no reference"))
    ELSE Ok([index |-> index, cell |-> entry.refs[1]])

\* read_custom() and config_params.get(index) on the parsed state
config_lookup(state, index) ==
    IF state.custom = None
    THEN Err(MkErr("Can't find McStateExtra in zerostate", index, "none"))
    ELSE IF index \notin DOMAIN state.custom[1]
    THEN Err(MkErr("Can't find config param", index, "in zerostate"))
    ELSE first_reference(state.custom[1][index], index)

\* process_config_param up to the cell it is to write: Ok([index, cell]) or Err
config_param_cell(ps, v, fs) ==
    Try(parse_int(Nth(ps, 1), "index", v), LAMBDA index :
        IF index < 0
        THEN Err(MkErr("<index> must not be a negative integer", "index", "range"))
        ELSE
    Try(parse_any(Nth(ps, 2), "zerostate.json", Ok, v), LAMBDA zerostate :
    Try(MapErr(fs_read(fs, zerostate),
               LAMBDA e : MkErr("Can't read zerostate json file", zerostate, e)),
        LAMBDA text :
    Try(MapErr(parse_state(text),
               LAMBDA e : MkErr("Can't parse read zerostate json file", zerostate, e)),
        LAMBDA state : config_lookup(state, index)))))

\* a write that leaves a file behind whatever the lookup gave
config_param_write_always(found, path, fs) ==
    [res |-> IF IsOk(found)
             THEN Answered(<<"Config param", found.val.index, "saved to path", path>>,
                           serialize_toc(found.val.cell),
                           Some([path |-> path, data |-> serialize_toc(found.val.cell)]))
             ELSE found,
     fs |-> [q \in (DOMAIN fs) \cup {path} |-> IF q = path THEN <<>> ELSE fs[q]]]

\* serialize_toc and std::fs::write of the cell found: [res, fs]
config_param_write(found, path, fs) ==
    IF ~IsOk(found) THEN [res |-> found, fs |-> fs]
    ELSE IF ~IsOk(fs_write(fs, path, serialize_toc(found.val.cell)))
    THEN [res |-> Err(MkErr("Can't write config param", path, "io")), fs |-> fs]
    ELSE [res |-> Answered(<<"Config param", found.val.index, "saved to path", path>>,
                           serialize_toc(found.val.cell),
                           Some([path |-> path, data |-> serialize_toc(found.val.cell)])),
          fs |-> fs_write(fs, path, serialize_toc(found.val.cell)).val]

process_config_param(ps, v, fs) ==
    config_param_write(config_param_cell(ps, v, fs),
                       IF Nth(ps, 3) = None THEN DefaultConfigPath ELSE ps[3], fs)

----------------------------------------------------------------------------
(* The state machine *)

Idle == [route |-> "none", name |-> "", ps |-> <<>>, step |-> 0, base |-> 0, bid |-> NoBid]
NoResult == [tag |-> "none", val |-> <<>>, route |-> "none", step |-> 0]
NoReply == [kind |-> "none"]
NoProbe == [name |-> "", answer |-> [type |-> "none"], sent |-> NoResult, received |-> NoResult]

\* what command() returned, with the route and step it returned from
Outcome(r, route, step) ==
    [tag |-> r.tag,
     val |-> IF IsOk(r) THEN [text |-> r.val.text, bytes |-> r.val.bytes] ELSE r.val,
     route |-> route, step |-> step]

Init ==
    /\ \E s \in Scenarios :
         /\ variant = s.variant
         /\ profile = s.profile
         /\ mode = s.mode
         /\ config = s.config
         /\ script = s.script
    /\ cmd = <<>>
    /\ conn = "Disconnected"
    /\ pc = "main"
    /\ cur = Idle
    /\ chan = <<>>
    /\ issued = <<>>
    /\ parsed = 0
    /\ parserCalls = 0
    /\ result = NoResult
    /\ files = InitFiles
    /\ writes = <<>>
    /\ lastReply = NoReply
    /\ clock = Now0
    /\ probe = NoProbe

Static == <<variant, profile, config, mode, probe>>

\* ControlClient::connect succeeds
Connect ==
    /\ pc = "main" /\ conn = "Disconnected"
    /\ conn' = "Connected"
    /\ UNCHANGED <<Static, cmd, script, pc, cur, chan, issued, parsed, parserCalls, result,
                   files, writes, lastReply, clock>>

\* ControlClient::connect fails: main's expect()/unwrap() panics
ConnectFail ==
    /\ pc = "main" /\ conn = "Disconnected"
    /\ pc' = "panicked"
    /\ UNCHANGED <<Static, cmd, script, conn, cur, chan, issued, parsed, parserCalls, result,
                   files, writes, lastReply, clock>>

----------------------------------------------------------------------------
(* command() between two awaits: what it does next is either to return or to  *)
(* call process_command                                                       *)

\* command() returns r from the route and step given, leaving the file system
\* fs behind, ws being the files it has just written
Returning(r, route, step, fs, ws) ==
    [kind |-> "return", r |-> r, route |-> route, step |-> step, fs |-> fs, ws |-> ws]

\* command() calls process_command(c.name, c.ps)
Calling(route, c, step, base, bid) ==
    [kind |-> "call", route |-> route, name |-> c.name, ps |-> c.ps, step |-> step,
     base |-> base, bid |-> bid]

\* the return of a function that writes its file last: out is [res, fs]
Finished(out, route, step) ==
    Returning(out.res, route, step, out.fs,
              IF IsOk(out.res) THEN <<out.res.val.write[1]>> ELSE <<>>)

\* process_election_bid from its entry to its first process_command, pre being
\* the outcome of its checks
BidFirst(pre, base, fs) ==
    IF ~IsOk(pre) THEN Returning(pre, "bid", 0, fs, <<>>)
    ELSE Calling("bid", BidCommand(1, pre.val), 1, base, pre.val)

\* the match of ControlClient::command on the first word
Route(name, ps, cfg, v, now, fs) ==
    CASE route_of(name, v) = "recover_stake" ->
            Finished(recover_stake(ps, now, fs), "recover_stake", 0)
      [] route_of(name, v) = "bid" -> BidFirst(bid_precheck(ps, cfg, v, now), 0, fs)
      [] route_of(name, v) = "config_param" ->
            Finished(process_config_param(ps, v, fs), "config_param", 0)
      [] route_of(name, v) = "test" ->
            Calling("test", [name |-> "newkey", ps |-> <<>>], 0, 0, NoBid)
      [] OTHER -> Calling("command", [name |-> name, ps |-> ps], 0, 0, NoBid)

\* ControlClient::command once the line is split into words
Routed(words, line, cfg, v, now, fs) ==
    IF ~IsOk(words)
    THEN Returning(Err(MkErr("split", line, words.val)), "none", 0, fs, <<>>)
    ELSE IF words.val = <<>>
    THEN Returning(Panic("takes_value set for COMMANDS"), "none", 0, fs, <<>>)
    ELSE Route(Head(words.val), Tail(words.val), cfg, v, now, fs)

\* ControlClient::command(line), up to its first await or its return
command(line, cfg, v, now, fs) == Routed(split_words(line, v), line, cfg, v, now, fs)

\* the bid's result as process_test hands it on
ViaTest(out, base) ==
    IF base > 0 /\ IsOk(out.res)
    THEN [out EXCEPT !.res.val.text = <<"test result">>]
    ELSE out

\* process_election_bid after the k-th process_command has returned bytes
BidNext(k, bid, bytes, base, v, now, fs) ==
    IF k < BidSteps THEN Calling("bid", BidCommand(k + 1, bid), k + 1, base, bid)
    ELSE Finished(ViaTest(bid_finish(bid, bytes, v, now, fs), base), "bid", BidSteps + 1)

\* std::fs::write(...).unwrap() of GetAccountState::receive: w is the file
Stored(r, w, written, fs) ==
    IF IsOk(written) THEN Returning(r, "command", 0, written.val, <<w>>)
    ELSE Returning(Panic("Can not create file"), "command", 0, fs, <<>>)

\* a failure that still leaves an output file behind
FailedButWrites(c, r, fs) ==
    Returning(r, c.route, c.step, fs, <<[path |-> DefaultBidPath, data |-> <<>>]>>)

\* a command that sends its request again when the reply was a failure
FailedRetries(c, r, fs) ==
    Calling(c.route, [name |-> c.name, ps |-> c.ps], c.step, c.base, c.bid)

\* the ? after a process_command that returned the error r: command() returns it
Failed(c, r, fs) == Returning(r, c.route, c.step, fs, <<>>)

\* command() from the return r of a process_command that got its answer to
\* its next await or to its return; c is where it stands, sent the number of
\* requests it has issued
AfterReply(c, r, sent, cfg, v, now, fs) ==
    CASE ~IsOk(r) -> Failed(c, r, fs)
      [] IsOk(r) /\ c.route = "command" ->
            IF r.val.write = None THEN Returning(r, "command", 0, fs, <<>>)
            ELSE Stored(r, r.val.write[1],
                        fs_write(fs, r.val.write[1].path, r.val.write[1].data), fs)
      [] IsOk(r) /\ c.route = "test" ->
            BidFirst(bid_precheck(TestParams(r.val.bytes), cfg, v, now), sent, fs)
      [] IsOk(r) /\ c.route = "bid" ->
            BidNext(c.step, bid_store(c.step, c.bid, r.val.bytes), r.val.bytes, c.base,
                    v, now, fs)

\* command() returns; log, ws and ch are the requests it has issued, the files
\* it had written before and the channel as it leaves it
Return(plan, log, ws, ch) ==
    /\ result' = Outcome(plan.r, plan.route, plan.step)
    /\ pc' = IF IsPanic(plan.r) THEN "panicked" ELSE "main"
    /\ cur' = [Idle EXCEPT !.bid = cur.bid]
    /\ issued' = log
    /\ files' = plan.fs
    /\ writes' = ws \o plan.ws
    /\ chan' = ch

\* process_command up to its await: the request q is put on the channel, or
\* the builder's error is returned
SendStep(plan, q, log, ws, ch) ==
    IF IsOk(q)
    THEN /\ chan' = channel_query(ch, q.val)
         /\ issued' = Append(log, [name |-> plan.name, ps |-> plan.ps, query |-> q.val,
                                   step |-> plan.step])
         /\ cur' = [route |-> plan.route, name |-> plan.name, ps |-> plan.ps,
                    step |-> plan.step, base |-> plan.base, bid |-> plan.bid]
         /\ pc' = "await"
         /\ result' = NoResult
         /\ files' = files
         /\ writes' = ws
    ELSE Return(Returning(q, plan.route, plan.step, files, <<>>), log, ws, ch)

\* command() runs on from where plan stands to its next await or its return
Proceed(plan, log, ws, ch) ==
    IF plan.kind = "return" THEN Return(plan, log, ws, ch)
    ELSE SendStep(plan, command_send(plan.name, plan.ps, variant, profile, clock, files),
                  log, ws, ch)

\* the batch loop takes the next scheduled command
BatchNext ==
    /\ mode = "batch" /\ script # <<>>
    /\ script' = Tail(script)

\* the interactive loop reads a line that is a command
ReadCommand ==
    /\ mode = "interactive" /\ script # <<>>
    /\ Head(script) # <<"quit">>
    /\ variant = "bin" => Head(script) # <<>>
    /\ script' = Tail(script)

\* stdin is at its end: read_line gives the empty line, which src/console.rs
\* runs as a command
ReadEofCommand ==
    /\ mode = "interactive" /\ script = <<>> /\ variant = "src"
    /\ script' = script

\* the line main hands to command()
NextLine ==
    IF script = <<>> THEN <<>>
    ELSE IF mode = "batch" THEN batch_trim(Head(script)) ELSE Head(script)

\* main calls client.command(line).await, which runs to its first await or to
\* its return
Command ==
    /\ pc = "main" /\ conn = "Connected"
    /\ BatchNext \/ ReadCommand \/ ReadEofCommand
    /\ cmd' = NextLine
    /\ parsed' = 0
    /\ parserCalls' = 0
    /\ lastReply' = NoReply
    /\ Proceed(command(NextLine, config, variant, clock, files), <<>>, <<>>, chan)
    /\ UNCHANGED <<Static, conn, clock>>

\* the interactive loop of bin/console.rs reads an empty line, or finds stdin
\* at its end, where read_line gives the empty line: continue
ReadEmpty ==
    /\ mode = "interactive" /\ pc = "main" /\ conn = "Connected" /\ variant = "bin"
    /\ \/ script # <<>> /\ Head(script) = <<>> /\ script' = Tail(script)
       \/ script = <<>> /\ script' = script
    /\ UNCHANGED <<Static, cmd, conn, pc, cur, chan, issued, parsed, parserCalls, result,
                   files, writes, lastReply, clock>>

\* what AdnlClient::shutdown may leave: it returned Ok, or an error
ShutdownResults == {"Closed", "CloseFailed"}

\* a main that unwraps the result of shutdown
ShutdownUnwrapped ==
    /\ pc = "main" /\ conn = "Connected"
    /\ \/ mode = "batch" /\ script = <<>> /\ script' = script
       \/ mode = "interactive" /\ script # <<>> /\ Head(script) = <<"quit">>
          /\ script' = Tail(script)
    /\ \E closed \in ShutdownResults :
         /\ conn' = closed
         /\ pc' = IF closed = "Closed" THEN "exit" ELSE "panicked"
    /\ UNCHANGED <<Static, cmd, cur, chan, issued, parsed, parserCalls, result,
                   files, writes, lastReply, clock>>

\* the loop is left (the batch loop after its last command, the interactive
\* loop on the quit line) and client.shutdown().await.ok() runs: whatever
\* shutdown returns is dropped and main ends
Shutdown ==
    /\ pc = "main" /\ conn = "Connected"
    /\ \/ mode = "batch" /\ script = <<>> /\ script' = script
       \/ mode = "interactive" /\ script # <<>> /\ Head(script) = <<"quit">>
          /\ script' = Tail(script)
    /\ conn' \in ShutdownResults
    /\ pc' = "exit"
    /\ UNCHANGED <<Static, cmd, cur, chan, issued, parsed, parserCalls, result,
                   files, writes, lastReply, clock>>

\* process_command from the reply of the channel on
Answer(reply, out, ch) ==
    /\ lastReply' = reply
    /\ parserCalls' = parserCalls + (IF out.parser THEN 1 ELSE 0)
    /\ parsed' = parsed + (IF IsOk(out.res) THEN 1 ELSE 0)
    /\ Proceed(AfterReply(cur, out.res, Len(issued), config, variant, clock, files),
               issued, writes, ch)

\* adnl.query().await returns with the channel's reply and the command runs on
\* to its next await or to its return
Reply ==
    /\ pc = "await" /\ chan # <<>>
    /\ \E reply \in Replies(Head(chan)) :
         Answer(reply, process_reply(cur.name, Head(chan), reply, cur.ps, variant),
                channel_answered(chan))
    /\ UNCHANGED <<Static, cmd, script, conn, clock>>

\* a second passes on the wall clock
Tick ==
    /\ clock < Now0 + MaxTicks
    /\ pc = "await" \/ (pc = "main" /\ conn = "Connected" /\ script # <<>>)
    /\ clock' = clock + 1
    /\ UNCHANGED <<Static, cmd, script, conn, pc, cur, chan, issued, parsed, parserCalls,
                   result, files, writes, lastReply>>

Next ==
    \/ Connect
    \/ ConnectFail
    \/ Command
    \/ ReadEmpty
    \/ Reply
    \/ Shutdown
    \/ Tick

Spec == Init /\ [][Next]_vars

----------------------------------------------------------------------------
(* The registry dispatch on its own: command_send and command_receive applied *)
(* to a name, parameters and an answer                                        *)

DispatchNames ==
    {RegistryBin[i] : i \in 1..Len(RegistryBin)}
    \cup {"get_validator_status", "delkey", "quit"}

InitDispatch ==
    /\ variant \in Variants
    /\ profile = "release"
    /\ mode = "batch"
    /\ config = GoodConfig(variant)
    /\ script = <<>>
    /\ cmd = <<>>
    /\ conn = "Disconnected"
    /\ pc = "main"
    /\ cur = Idle
    /\ chan = <<>>
    /\ issued = <<>>
    /\ parsed = 0
    /\ parserCalls = 0
    /\ result = NoResult
    /\ files = InitFiles
    /\ writes = <<>>
    /\ lastReply = NoReply
    /\ clock = Now0
    /\ probe = NoProbe

Dispatch ==
    /\ \E name \in DispatchNames, ps \in {<<>>, <<HexK1>>},
          answer \in Answers([type |-> "GenerateKeyPair"]) :
         probe' = [name |-> name, answer |-> answer,
                   sent |-> command_send(name, ps, variant, profile, clock, files),
                   received |-> command_receive(name, answer, ps, variant)]
    /\ UNCHANGED <<variant, profile, config, mode, script, cmd, conn, pc, cur, chan, issued,
                   parsed, result, files, clock, writes, lastReply, parserCalls>>

SpecDispatch == InitDispatch /\ [][Dispatch]_vars

----------------------------------------------------------------------------
(* The hash parser on its own: parse_int256 applied to a parameter, and       *)
(* ExportPub::send to the same parameter                                      *)

Quoted(s) == <<"\"">> \o s \o <<"\"">>

\* the values to encode: Key(0) .. Key(HashKeys), all bytes 0, all bytes 255
HashValues ==
    {Key(n) : n \in 0..HashKeys}
    \cup {[i \in 1..HASH_LEN |-> 0], [i \in 1..HASH_LEN |-> 255]}

\* a parameter for the parser: the text, how it was made, and of what value
HashCase(value, enc, input) == [value |-> value, enc |-> enc, input |-> input]

\* texts that are no encoding of a 32-byte value
Malformed ==
    {SubSeq(HexK1, 1, n) : n \in {0, 2, 43, 44, 45, 62, 63}}
    \cup {HexK1 \o <<"0">>, HexK1 \o <<"0", "0">>, BadHash, NotInt}
    \cup {[HexK1 EXCEPT ![n] = "g"] : n \in {1, 64}}
    \cup {[B64K1 EXCEPT ![n] = "*"] : n \in {1, 43}}
    \cup {[B64K1 EXCEPT ![43] = "B"], SubSeq(B64K1, 1, 43), B64K1 \o <<"=">>}
    \cup {base64_encode(SubSeq(Key(1), 1, 31)), base64_encode(Key(1) \o <<7>>)}
    \cup {hex_encode(Key(1)) \o SubSeq(B64K1, 1, 20)}

HashCases ==
    {HashCase(Some(v), "base64", Some(base64_encode(v))) : v \in HashValues}
    \cup {HashCase(Some(v), "hex", Some(hex_encode(v))) : v \in HashValues}
    \cup {HashCase(Some(v), "HEX", Some(hex_encode_upper(v))) : v \in HashValues}
    \cup {HashCase(Some(v), "quoted", Some(Quoted(hex_encode(v)))) : v \in HashValues}
    \cup {HashCase(Some(v), "quoted", Some(Quoted(base64_encode(v)))) : v \in HashValues}
    \cup {HashCase(None, "malformed", Some(t)) : t \in Malformed}
    \cup {HashCase(None, "missing", None)}

ParseHash ==
    /\ \E c \in HashCases :
         probe' = [name |-> "parse_int256", value |-> c.value, enc |-> c.enc,
                   input |-> c.input,
                   output |-> parse_int256(c.input, "test", variant),
                   request |-> ExportPub_send(c.input, variant)]
    /\ UNCHANGED <<variant, profile, config, mode, script, cmd, conn, pc, cur, chan, issued,
                   parsed, result, files, clock, writes, lastReply, parserCalls>>

SpecParse == InitDispatch /\ [][ParseHash]_vars

----------------------------------------------------------------------------
(* adnl_resolve: the scan loop that asks DHT nodes for more nodes until the   *)
(* address is found                                                           *)

\* the DHT nodes there are, and the longest list of them in the global config
ScanPeers == 3
ConfigLen == 2
Peers == 1..ScanPeers

\* the sequences over S of length n
RECURSIVE SeqsOfLen(_, _)
SeqsOfLen(S, n) ==
    IF n = 0 THEN {<<>>}
    ELSE {Append(q, x) : q \in SeqsOfLen(S, n - 1), x \in S}

\* the lists of DHT nodes a global config may hold
DhtConfigs == UNION {SeqsOfLen(Peers, n) : n \in 0..ConfigLen}

\* Vec::contains
Contains(v, x) == \E i \in 1..Len(v) : v[i] = x

\* Vec::remove(i), i counted from 0
VecRemove(v, i) == SubSeq(v, 1, i) \o SubSeq(v, i + 2, Len(v))

\* dht.get_known_nodes: the nodes of the table, one entry each
RECURSIVE get_known_nodes(_)
get_known_nodes(known) ==
    IF known = {} THEN <<>>
    ELSE <<CHOOSE k \in known : \A j \in known : k <= j>>
             \o get_known_nodes(known \ {CHOOSE k \in known : \A j \in known : k <= j})

\* the state of scan() when it enters its loop: every node of the config has
\* been added as a peer and pushed to nodes
ScanStart(cfg, responsive) ==
    [name |-> "scan", pc |-> "find", nodes |-> cfg, bad_nodes |-> <<>>, index |-> 0,
     known |-> {cfg[i] : i \in 1..Len(cfg)}, responsive |-> responsive,
     outcome |-> "running"]

\* scan() returns
ScanReturns(s, outcome) == [s EXCEPT !.pc = "done", !.outcome = outcome]

\* a refill that takes every known node, the bad ones too
refill_unfiltered(s) ==
    IF s.known = {} THEN ScanReturns([s EXCEPT !.nodes = <<>>], "No good DHT peers")
    ELSE [s EXCEPT !.nodes = get_known_nodes(s.known), !.index = 0, !.pc = "query"]

\* nodes.clear() and the loop over the known nodes that pushes those not in
\* bad_nodes; fail!("No good DHT peers") if none is left, index = 0 otherwise
refill(s) ==
    IF \A k \in s.known : Contains(s.bad_nodes, k)
    THEN ScanReturns([s EXCEPT !.nodes = <<>>], "No good DHT peers")
    ELSE [s EXCEPT !.nodes = SelectSeq(get_known_nodes(s.known),
                                       LAMBDA k : ~Contains(s.bad_nodes, k)),
                   !.index = 0, !.pc = "query"]

\* a node that gave no answer is left where it is in the list
query_false_keeps(s) == [s EXCEPT !.index = @ + 1, !.pc = "find"]

\* find_dht_nodes gave false: bad_nodes.push(nodes.remove(index))
query_false(s) ==
    [s EXCEPT !.bad_nodes = Append(@, s.nodes[s.index + 1]),
              !.nodes = VecRemove(@, s.index),
              !.pc = "find"]

\* find_dht_nodes gave true, the table having learned the nodes in learned
query_true(s, learned) ==
    [s EXCEPT !.index = @ + 1, !.known = @ \cup learned, !.pc = "find"]

InitScan ==
    /\ variant = "bin"
    /\ profile = "release"
    /\ mode = "batch"
    /\ config = GoodConfig(variant)
    /\ script = <<>>
    /\ cmd = <<>>
    /\ conn = "Disconnected"
    /\ pc = "main"
    /\ cur = Idle
    /\ chan = <<>>
    /\ issued = <<>>
    /\ parsed = 0
    /\ parserCalls = 0
    /\ result = NoResult
    /\ files = InitFiles
    /\ writes = <<>>
    /\ lastReply = NoReply
    /\ clock = Now0
    /\ \E cfg \in DhtConfigs, responsive \in SUBSET Peers :
         probe = ScanStart(cfg, responsive)

ScanStep(s) ==
    /\ probe' = s
    /\ UNCHANGED <<variant, profile, config, mode, script, cmd, conn, pc, cur, chan, issued,
                   parsed, result, files, clock, writes, lastReply, parserCalls>>

\* find_address gave the address: scan returns Ok
ScanFound ==
    /\ probe.pc = "find"
    /\ ScanStep(ScanReturns(probe, "found"))

\* find_address gave an error, which the `if let Ok` drops
ScanNotFound ==
    /\ probe.pc = "find"
    /\ ScanStep([probe EXCEPT !.pc = IF probe.index >= Len(probe.nodes) THEN "refill"
                                     ELSE "query"])

\* index >= nodes.len(): the list is filled again from the table
ScanRefill ==
    /\ probe.pc = "refill"
    /\ ScanStep(refill(probe))

\* get_known_nodes or add_peer gave an error, which `?` hands on
ScanRefillFails ==
    /\ probe.pc = "refill"
    /\ ScanStep(ScanReturns([probe EXCEPT !.nodes = <<>>], "DHT error"))

\* nodes[index] is read and asked for more nodes; a node that may answer
\* answers or not, and an answer may bring nodes the table did not know
ScanQuery ==
    /\ probe.pc = "query"
    /\ IF probe.index >= Len(probe.nodes)
       THEN ScanStep(ScanReturns(probe, "index out of bounds"))
       ELSE \/ ScanStep(query_false(probe))
            \/ /\ probe.nodes[probe.index + 1] \in probe.responsive
               /\ \E learned \in SUBSET Peers : ScanStep(query_true(probe, learned))

\* find_dht_nodes gave an error, which `?` hands on
ScanQueryFails ==
    /\ probe.pc = "query"
    /\ probe.index < Len(probe.nodes)
    /\ ScanStep(ScanReturns(probe, "DHT error"))

ScanNext ==
    \/ ScanFound
    \/ ScanNotFound
    \/ ScanRefill
    \/ ScanRefillFails
    \/ ScanQuery
    \/ ScanQueryFails

SpecScan == InitScan /\ [][ScanNext]_vars

\* the loop goes on: no call of it blocks for ever
SpecScanFair == InitScan /\ [][ScanNext]_vars /\ WF_vars(ScanNext)

----------------------------------------------------------------------------
(* notests: the stripper of #[cfg(test)] items                                *)

\* the longest source file, in lines
MaxFileLen == 4

\* a character of two bytes in UTF-8
TwoByteChar == "U+00E9"
Width(c) == IF c = TwoByteChar THEN 2 ELSE 1

\* char::to_lowercase on the letters the lines below are written in
Lower(c) == IF c = "X" THEN "x" ELSE c
to_lowercase(s) == [i \in 1..Len(s) |-> Lower(s[i])]

\* str::trim
RECURSIVE trim_start(_)
trim_start(s) == IF s # <<>> /\ Head(s) = " " THEN trim_start(Tail(s)) ELSE s
RECURSIVE trim_end(_)
trim_end(s) ==
    IF s # <<>> /\ s[Len(s)] = " " THEN trim_end(SubSeq(s, 1, Len(s) - 1)) ELSE s
trim(s) == trim_end(trim_start(s))

RECURSIVE count_braces(_)
count_braces(s) ==
    IF s = <<>> THEN 0
    ELSE (CASE Head(s) = "{" -> 1 [] Head(s) = "}" -> -1 [] OTHER -> 0)
         + count_braces(Tail(s))

CfgTest == <<"#", "[", "c", "f", "g", "(", "t", "e", "s", "t", ")", "]">>

\* what.get(0..1), what.get(1..2): the byte ranges must lie on characters
char_0(what) ==
    IF what # <<>> /\ Width(what[1]) = 1 THEN Some(what[1]) ELSE None
char_1(what) ==
    IF Len(what) >= 2 /\ Width(what[1]) = 1 /\ Width(what[2]) = 1 THEN Some(what[2])
    ELSE None

\* what.get(char_n-1..char_n) of a line that is not empty
char_n(what) == IF Width(what[Len(what)]) = 1 THEN Some(what[Len(what)]) ELSE None

\* parse_file between two lines: its counters and what it has written to tmp
ParseStart == [tag |-> "ok", val |-> "", braces |-> 0, skip |-> FALSE, tmp |-> <<>>]
ParseStops(st, tag, val) == [st EXCEPT !.tag = tag, !.val = val]

\* lines 57-63: the braces of the line are counted, and a line that ends an
\* item ends the skipping when no brace is open
counted(st, braces, last) ==
    IF braces < 0 THEN ParseStops(st, "panic", "assertion failed: braces >= 0")
    ELSE IF last \notin {";", ",", "}"} THEN [st EXCEPT !.braces = braces]
    ELSE [st EXCEPT !.braces = braces, !.skip = braces > 0]

\* lines 42-63: a line that is not copied. On the empty line char_n - 1 leaves
\* the range of usize: a build with overflow checks panics, one without gets
\* None from get()
skipped_line(st, what, prof) ==
    IF what = <<>>
    THEN (IF prof = "debug"
          THEN ParseStops(st, "panic", "attempt to subtract with overflow")
          ELSE [st EXCEPT !.skip = st.braces > 0])
    ELSE IF char_0(what) = None THEN [st EXCEPT !.skip = st.braces > 0]
    ELSE IF char_n(what) = None
    THEN ParseStops(st, "err", "Internal error: cannot get last char in line")
    ELSE IF char_0(what) = Some("#") /\ char_1(what) = Some("[") THEN st
    ELSE IF char_0(what) = Some("/") /\ char_1(what) = Some("/") THEN st
    ELSE counted(st, st.braces + count_braces(what), char_n(what)[1])

\* lines 31-64: one line of the source, what being the line trimmed and in
\* lower case
parse_line(st, line, what, prof) ==
    IF IsPrefix(CfgTest, what)
    THEN (IF count_braces(what) < 0
          THEN ParseStops(st, "panic", "assertion failed: braces >= 0")
          ELSE skipped_line([st EXCEPT !.braces = count_braces(what), !.skip = TRUE],
                            what, prof))
    ELSE IF ~st.skip THEN [st EXCEPT !.tmp = Append(@, line)]
    ELSE skipped_line(st, what, prof)

\* process_file: parse_file(path)?, then remove_file and rename put tmp in the
\* place of the file
replace_file(lines, r) == IF r.tag = "ok" THEN r.tmp ELSE lines

\* lines of a source file
LineCfg == CfgTest
LineMod == <<"m", "o", "d", " ", "t", " ", "{">>
LineClose == <<"}">>
LineCloseNoted == <<"}", " ", "/", "/", " ", "t">>
LineStmt == <<" ", " ", "X", ";">>
LineBlank == <<>>
LineBraceText == <<"s", "(", "\"", "{", "\"", ")", ";">>
LineNote == <<"/", "/", " ", TwoByteChar>>
SourceLines == {LineCfg, LineMod, LineClose, LineCloseNoted, LineStmt, LineBlank,
                LineBraceText, LineNote}

SourceFiles == UNION {SeqsOfLen(SourceLines, n) : n \in 0..MaxFileLen}

\* notests is given a file: lines is its content, pos the number of lines read
StripStart(lines, prof) ==
    [name |-> "notests", file |-> lines, profile |-> prof, pos |-> 0,
     parsed |-> ParseStart, done |-> FALSE, after |-> lines]

InitStrip ==
    /\ variant = "src"
    /\ profile = "release"
    /\ mode = "batch"
    /\ config = GoodConfig(variant)
    /\ script = <<>>
    /\ cmd = <<>>
    /\ conn = "Disconnected"
    /\ pc = "main"
    /\ cur = Idle
    /\ chan = <<>>
    /\ issued = <<>>
    /\ parsed = 0
    /\ parserCalls = 0
    /\ result = NoResult
    /\ files = InitFiles
    /\ writes = <<>>
    /\ lastReply = NoReply
    /\ clock = Now0
    /\ \E lines \in SourceFiles, prof \in Profiles : probe = StripStart(lines, prof)

StripStep(s) ==
    /\ probe' = s
    /\ UNCHANGED <<variant, profile, config, mode, script, cmd, conn, pc, cur, chan, issued,
                   parsed, result, files, clock, writes, lastReply, parserCalls>>

\* the loop of parse_file takes the next line
StripLine ==
    /\ ~probe.done /\ probe.parsed.tag = "ok" /\ probe.pos < Len(probe.file)
    /\ StripStep([probe EXCEPT
            !.pos = @ + 1,
            !.parsed = parse_line(@, probe.file[probe.pos + 1],
                                  to_lowercase(trim(probe.file[probe.pos + 1])),
                                  probe.profile)])

\* parse_file has returned, at the end of the file or at an error: process_file
\* replaces the file or leaves it
StripEnd ==
    /\ ~probe.done
    /\ probe.parsed.tag # "ok" \/ probe.pos = Len(probe.file)
    /\ StripStep([probe EXCEPT !.done = TRUE,
                               !.after = replace_file(probe.file, probe.parsed)])

StripNext == StripLine \/ StripEnd

SpecStrip == InitStrip /\ [][StripNext]_vars

----------------------------------------------------------------------------
(* Properties *)

\* the order of the bid's remote commands
BidOrder == <<"newkey", "exportpub", "addpermkey", "addtempkey", "newkey", "addadnl",
              "addvalidatoraddr", "sign">>

\* the requests issued as steps of the election bid
BidLog == SelectSeq(issued, LAMBDA e : e.step > 0)

\* C1: in every run of the election bid the remote commands are issued in the
\* order newkey, exportpub, addpermkey, addtempkey, newkey, addadnl,
\* addvalidatoraddr, sign, none skipped, repeated or reordered, and step k+1
\* is issued only when the replies of the k steps before it have been received
\* and parsed successfully.
C1_BidOrder ==
    /\ Len(BidLog) <= BidSteps
    /\ \A i \in 1..Len(BidLog) : BidLog[i].step = i /\ BidLog[i].name = BidOrder[i]
    /\ Len(BidLog) >= 1 => parsed >= Len(BidLog) - 1
    /\ (pc = "await" /\ cur.route = "bid") =>
          /\ cur.step = Len(BidLog)
          /\ parsed - cur.base = Len(BidLog) - 1
          /\ chan = <<BidLog[Len(BidLog)].query>>

\* a bid has issued all its eight commands and returned its result
C1_Witness ==
    result.route = "bid" /\ result.tag = "ok" /\ Len(BidLog) = BidSteps /\ parsed = BidSteps

\* the error process_command makes of the reply to the request q
ReplyError(q, reply) ==
    IF reply.kind = "error" THEN MkErr("Error receiving answer", q, "channel")
    ELSE IF reply.answer.type = "ControlQueryError"
    THEN MkErr("Error response to", q, reply.answer)
    ELSE MkErr("Wrong response to", q, reply.answer)

\* the election bid has returned an error from one of its steps (the eight
\* commands, or the verification and the write after them)
BidStepFailed == result.route = "bid" /\ result.tag = "err" /\ result.step >= 1

\* C2: when a step of the election bid fails the bid stops there: nothing is
\* outstanding and no request follows the failing one, no output file is
\* written, the caller gets the error of the failing step, and the only
\* requests ever issued are the bid's own steps in their order (none that
\* undoes an earlier one).
C2_AbortOnFailure ==
    BidStepFailed =>
        /\ pc # "await" /\ chan = <<>>
        /\ writes = <<>> /\ files = InitFiles
        /\ issued = BidLog
        /\ Len(issued) <= result.step /\ Len(issued) >= result.step - 1
        /\ \A i \in 1..Len(issued) : issued[i].name = BidOrder[i]
        /\ result.step <= BidSteps =>
              /\ Len(issued) = result.step
              /\ result.val = ReplyError(issued[result.step].query, lastReply)
        /\ result.step = BidSteps + 1 =>
              result.val.msg \in {"bad signature", "io"}

\* a bid has failed at a step after earlier steps registered keys remotely
C2_Witness ==
    BidStepFailed /\ result.step = 4 /\ Len(issued) = 4
    /\ result.val.msg = "Error response to"

\* the reply delivered last is a signature
SignReply == lastReply.kind = "answer" /\ lastReply.answer.type = "Signature"

\* the bid has returned from behind its sign step
AfterSign == result.route = "bid" /\ result.step = BidSteps + 1

\* the signature delivered last is one of the exported key over the bytes the
\* bid asked to have signed
SignatureGood ==
    /\ lastReply.answer.signature.signer = cur.bid.pub_key
    /\ lastReply.answer.signature.over = data_to_sign(cur.bid)

\* C3: the election bid verifies the signature after the sign reply and before
\* it builds or writes the payload: while the bid runs nothing is written, a
\* signature that does not verify makes the bid fail with the signature error
\* and leaves no file, and a file is there only when the signature verified.
C3_VerifyBeforeWrite ==
    /\ (pc = "await" /\ cur.route = "bid") => writes = <<>> /\ files = InitFiles
    /\ (AfterSign /\ SignReply /\ ~SignatureGood) =>
          /\ result.tag = "err" /\ result.val.msg = "bad signature"
          /\ writes = <<>> /\ files = InitFiles
    /\ (result.route = "bid" /\ (writes # <<>> \/ files # InitFiles)) =>
          AfterSign /\ SignReply /\ SignatureGood

\* a bid got a signature that does not verify
C3_Witness ==
    AfterSign /\ SignReply /\ ~SignatureGood /\ result.val.msg = "bad signature"

\* C4: a control session never has more than one request outstanding: a request
\* is on the channel exactly while the command awaits its reply, and a new one
\* is sent only when the reply or the error of the one before is known.
C4_OneOutstanding ==
    /\ Len(chan) <= 1
    /\ pc = "await" <=> Len(chan) = 1
    /\ pc = "await" => chan[1] = issued[Len(issued)].query

\* a later request of a bid is outstanding alone
C4_Witness == pc = "await" /\ Len(issued) >= 2 /\ Len(chan) = 1

\* the reply delivered last is the structured remote error
RemoteErrorReply ==
    lastReply.kind = "answer" /\ lastReply.answer.type = "ControlQueryError"

\* the request the reply delivered last answered
AnsweredEntry == IF pc = "await" THEN issued[Len(issued) - 1] ELSE issued[Len(issued)]

\* replies the command being executed has received
Received == Len(issued) - Len(chan)

\* C5: process_command looks at the reply for the ControlQueryError variant
\* first: such a reply makes the command fail with the remote error, the
\* remote's code and message unchanged, and the response parser is not called
\* for it; the parser is called exactly for the answers that are not that
\* variant.
C5_RemoteErrorFirst ==
    /\ RemoteErrorReply =>
          /\ pc # "await" /\ result.tag = "err"
          /\ result.val.msg = "Error response to"
          /\ result.val.what = AnsweredEntry.query
          /\ result.val.cause.code = lastReply.answer.code
          /\ result.val.cause.message = lastReply.answer.message
    /\ parserCalls =
          Received - (IF lastReply.kind = "error" \/ RemoteErrorReply THEN 1 ELSE 0)

\* a command has failed on a remote error after an earlier answer was parsed
C5_Witness ==
    RemoteErrorReply /\ result.val.msg = "Error response to" /\ parserCalls >= 1

\* the response type registered for a command: the type its receive downcasts to
Expected(name) ==
    CASE name = "newkey" -> "KeyHash"
      [] name = "exportpub" -> "PublicKey"
      [] name = "sign" -> "Signature"
      [] name = "getstats" -> "Stats"
      [] name = "getconsensusstats" -> "SessionStats"
      [] name = "getaccountstate" -> "FullAccountState"
      [] OTHER -> "Success"

\* the reply delivered last has not the shape registered for its command
WrongShape ==
    lastReply.kind = "answer" /\ lastReply.answer.type # Expected(AnsweredEntry.name)

\* C6 as stated: every reply whose shape differs from the response type
\* registered for its command makes the command fail with the protocol error
\* (Wrong response), and never gives a successful result.
C6_WrongShapeIsProtocolError ==
    WrongShape =>
        /\ pc # "await" /\ result.tag = "err"
        /\ result.val.msg = "Wrong response to"

\* C6: every reply whose shape differs from the response type registered for
\* its command makes the command fail, never giving a successful result: with
\* the remote error when the reply is the ControlQueryError variant, with the
\* protocol error (Wrong response, carrying the request and the answer) for
\* every other shape.
C6_WrongShapeFails ==
    WrongShape =>
        /\ pc # "await" /\ result.tag = "err"
        /\ result.val = ReplyError(AnsweredEntry.query, lastReply)
        /\ result.val.msg =
              IF RemoteErrorReply THEN "Error response to" ELSE "Wrong response to"

\* a command whose answer is a plain Success got a key hash instead
C6_Witness ==
    /\ WrongShape /\ ~RemoteErrorReply
    /\ Expected(AnsweredEntry.name) = "Success"
    /\ result.val.msg = "Wrong response to"

\* C7: dispatch on a name that is not in the registry fails with "command not
\* supported" in command_send and in command_receive, and no request is made
\* for it.
C7_NotSupported ==
    (probe.name # "" /\ ~Registered(probe.name, variant)) =>
        /\ probe.sent = NotSupported(probe.name)
        /\ probe.received = NotSupported(probe.name)

\* the line handed to command() runs the election bid
BidLine == cmd # <<>> /\ route_of(Head(cmd), variant) = "bid"

\* the configured wallet lacks the masterchain prefix or is not hex behind it
WalletBroken ==
    \/ config.wallet_id = None
    \/ ~IsPrefix(MasterchainPrefix, config.wallet_id[1])
    \/ ~IsOk(hex_decode(SubSeq(config.wallet_id[1], 4, Len(config.wallet_id[1]))))

\* elect_time <= 0 or expire_time <= elect_time on the line
TimesBroken ==
    /\ Len(cmd) >= 3
    /\ IsOk(int_from_str(cmd[2])) /\ IsOk(int_from_str(cmd[3]))
    /\ \/ int_from_str(cmd[2]).val <= 0
       \/ int_from_str(cmd[3]).val <= int_from_str(cmd[2]).val

\* max_factor is missing or outside [1.0, 100.0]
FactorBroken ==
    \/ config.max_factor = None
    \/ config.max_factor[1] < FACTOR_SCALE * FracRes
    \/ config.max_factor[1] > 100 * FACTOR_SCALE * FracRes

\* C8: every precondition of the election bid is checked before the first
\* remote call: a wallet without the "-1:" prefix or not hex, elect_time <= 0,
\* expire_time <= elect_time, max_factor missing or outside [1.0, 100.0] make
\* the bid fail with no request issued.
C8_PrecheckBeforeRemote ==
    (BidLine /\ (WalletBroken \/ TimesBroken \/ FactorBroken)) =>
        /\ issued = <<>> /\ chan = <<>> /\ pc # "await"
        /\ result.tag = "err"

\* t is the difference a - b
IsDifference(t, a, b) == ~SubOverflows(a, b) /\ t = a - b

\* C9: the TTL of a key-addition request is expire_at - election_date for
\* addpermkey and expire_at - now() for addtempkey and addvalidatoraddr, now()
\* being the wall clock when the request is built.
C9_TtlAnchors ==
    [][(pc' = "await" /\ clock' = clock) =>
         LET e == issued'[Len(issued')] IN
         /\ e.name = "addpermkey" =>
               IsDifference(e.query.ttl, int_from_str(e.ps[3]).val, int_from_str(e.ps[2]).val)
         /\ e.name \in {"addtempkey", "addvalidatoraddr"} =>
               IsDifference(e.query.ttl, int_from_str(e.ps[3]).val, clock)]_vars

\* C10: every key-addition request that is built (addpermkey, addtempkey,
\* addvalidatoraddr), issued directly or as a step of the bid, carries a TTL
\* above zero; inputs that give a TTL <= 0 are rejected and no request is sent.
C10_PositiveTtl ==
    \A i \in 1..Len(issued) :
        issued[i].name \in {"addpermkey", "addtempkey", "addvalidatoraddr"} =>
            issued[i].query.ttl > 0

\* the line handed to command() is addadnl with a key hash and the category c
AddAdnlLine(c) == cmd = <<"addadnl", HexK1, FormatInt(c)>>

\* C11: addadnl accepts a category c iff 0 <= c <= 15: with 0 or 15 the request
\* is built and sent carrying c, with 16 or -1 the command fails with the
\* category error and nothing has been sent on the channel.
C11_CategoryRange ==
    \A c \in {-1, 0, 15, 16} :
        AddAdnlLine(c) =>
            IF 0 <= c /\ c <= 15
            THEN /\ Len(issued) = 1
                 /\ issued[1].query = [type |-> "AddAdnlId", key_hash |-> Key(1), category |-> c]
                 /\ pc = "await" <=> chan = <<issued[1].query>>
            ELSE /\ issued = <<>> /\ chan = <<>> /\ pc # "await"
                 /\ result.tag = "err"
                 /\ result.val.msg = "category must be not negative and less than 16"

\* addadnl with category 16 has failed with nothing sent
C11_Witness == AddAdnlLine(16) /\ result.tag = "err" /\ issued = <<>>

\* round(f * 65536), to the nearest integer, of the max_factor f = m / (FACTOR_SCALE * FracRes)
round_factor(m) == (2 * m + FracRes) \div (2 * FracRes)

\* the payload cell a successful bid has written
BidPayload == writes[Len(writes)].data[1].boc.data

\* C12: max_factor f is accepted iff 1.0 <= f <= 100.0 (outside of it the bid
\* fails with nothing sent), and an accepted f goes as round(f * 65536), rounded
\* to the nearest integer, into the bytes to sign and into the payload.
C12_FactorRounded ==
    /\ (BidLine /\ FactorBroken) =>
          issued = <<>> /\ pc # "await" /\ result.tag = "err"
    /\ \A i \in 1..Len(BidLog) :
          BidLog[i].step = BidSteps =>
              /\ ~FactorBroken
              /\ SubSeq(BidLog[i].query.data, 9, 12) = BE4(round_factor(config.max_factor[1]))
    /\ (result.route = "bid" /\ result.tag = "ok") =>
          SubSeq(BidPayload, Len(BidPayload) - HASH_LEN - 3, Len(BidPayload) - HASH_LEN)
              = BE4(round_factor(config.max_factor[1]))

\* the text of the parameter the hash parser was given
HashText == probe.input[1]

\* the text decodes in the encoding its length selects
Decodes(t) == IF Len(t) = 44 THEN IsOk(base64_decode(t)) ELSE IsOk(hex_decode(t))

\* C13 as stated: parse_int256 accepts a parameter only when its length is
\* exactly 44 or exactly 64; a text of another length, a text of such a length
\* that does not decode, and a missing parameter fail, and what is accepted is
\* a 32-byte value.
C13_LengthDecides ==
    probe.name = "parse_int256" =>
        /\ IsOk(probe.output) =>
              /\ probe.input # None /\ Len(HashText) \in {44, 64}
              /\ Len(probe.output.val) = HASH_LEN
        /\ (probe.input = None \/ Len(HashText) \notin {44, 64} \/ ~Decodes(HashText)) =>
              IsErr(probe.output)

\* the text the parser measures and decodes: bin/console.rs takes the double
\* quotes off both ends first, src/console.rs takes the text as it is
HashGiven == IF variant = "bin" THEN TrimQuotes(HashText) ELSE HashText

\* C13: parse_int256 accepts a parameter only when the text, the double quotes
\* around it taken off by bin/console.rs, has length exactly 44 and decodes as
\* base64 to 32 bytes or has length exactly 64 and decodes as hex, and gives
\* the decoded 32 bytes; every other length, a text that does not decode and a
\* missing parameter fail with an error.
C13_LengthDecidesUnquoted ==
    probe.name = "parse_int256" =>
        /\ IsOk(probe.output) =>
              /\ probe.input # None /\ Len(HashGiven) \in {44, 64}
              /\ Decodes(HashGiven)
              /\ Len(probe.output.val) = HASH_LEN
              /\ probe.output.val =
                    IF Len(HashGiven) = 44 THEN base64_decode(HashGiven).val
                                           ELSE hex_decode(HashGiven).val
        /\ (probe.input = None \/ Len(HashGiven) \notin {44, 64} \/ ~Decodes(HashGiven)) =>
              IsErr(probe.output)
        /\ IsOk(probe.output) \/ IsErr(probe.output)

\* a text of 63 hex digits was refused
C13_Witness ==
    /\ probe.name = "parse_int256" /\ probe.enc = "malformed"
    /\ Len(HashText) = 63 /\ IsErr(probe.output)

\* C14: hash parsing round-trips: for a 32-byte value v, parse_int256 of the
\* base64 text of v, of its hex text and of its upper-case hex text all give v,
\* so exportpub asks for the same key whichever form the hash is given in.
C14_RoundTrip ==
    (probe.name = "parse_int256" /\ probe.enc \in {"base64", "hex", "HEX"}) =>
        /\ probe.output = Ok(probe.value[1])
        /\ probe.request = Ok([type |-> "ExportPublicKey", key_hash |-> probe.value[1]])

\* the base64 text of a key hash was parsed back to it
C14_Witness ==
    /\ probe.name = "parse_int256" /\ probe.enc = "base64"
    /\ probe.value = Some(Key(1)) /\ probe.output = Ok(Key(1))

\* the process has ended (main returned, or a panic unwound it) after the
\* session was connected
Ended == pc \in {"exit", "panicked"} /\ conn # "Disconnected"

\* C15: once connected, the session's channel is released on every exit path of
\* the program: whenever the process ends, by a failing command, a malformed or
\* empty command line or otherwise, shutdown has been called.
C15_ReleasedOnExit == Ended => conn \in ShutdownResults

\* C16: the session goes Disconnected -> Connected -> Disconnected: commands run
\* only while it is Connected, a failed connect ends the program with no command
\* run, nothing runs after the shutdown, and an error of shutdown changes
\* nothing of the program's outcome.
C16_SessionStates ==
    /\ [](pc = "await" => conn = "Connected")
    /\ [](conn = "Disconnected" =>
             cmd = <<>> /\ issued = <<>> /\ chan = <<>> /\ result = NoResult
             /\ files = InitFiles)
    /\ [](conn \in ShutdownResults => pc = "exit")
    /\ [][/\ pc \notin {"exit", "panicked"}
          /\ conn' # conn =>
                \/ conn = "Disconnected" /\ conn' = "Connected"
                \/ conn = "Connected" /\ conn' \in ShutdownResults
          /\ <<cmd, issued, chan, result, files>>' # <<cmd, issued, chan, result, files>> =>
                conn = "Connected" /\ conn' = "Connected"
          /\ conn' \in ShutdownResults =>
                pc' = "exit" /\ <<result, files, issued>>' = <<result, files, issued>>]_vars

\* shutdown has returned an error after a command that succeeded, and the
\* program has ended as it would have without it
C16_Witness == conn = "CloseFailed" /\ pc = "exit" /\ result.tag = "ok"

\* C17: in batch mode every scheduled command is executed once, in the order
\* given, whatever became of the ones before it: the lines are taken one by one
\* from the front, each is handed to command(), and the program ends only when
\* none is left; in interactive mode a command that fails leaves the loop
\* reading on, and the loop ends on the quit line only.
C17_AllCommandsRun ==
    /\ []((Ended /\ mode = "batch") => script = <<>>)
    /\ []((Ended /\ mode = "interactive") => pc = "exit")
    /\ [](result.tag = "err" => pc \in {"main", "exit"})
    /\ [][script' # script =>
            /\ script # <<>> /\ script' = Tail(script)
            /\ (conn' = "Connected" /\ Head(script) # <<>>) =>
                  cmd' = IF mode = "batch" THEN batch_trim(Head(script)) ELSE Head(script)]_vars

\* C18: nothing is retried: a process_command puts at most one request on the
\* channel, a request follows only requests whose replies were accepted, a
\* failure returns with no request added, and a bid that succeeds has issued
\* exactly eight requests.
C18_NoRetries ==
    /\ [](Len(issued) <= parsed + 1)
    /\ [](pc = "await" => Len(issued) = parsed + 1 /\ Len(chan) = 1)
    /\ []((cur.route = "command" \/ result.route = "command") => Len(issued) <= 1)
    /\ []((result.route = "bid" /\ result.tag = "ok") =>
             Len(issued) = BidSteps /\ Len(BidLog) = BidSteps)
    /\ [][/\ Len(issued') <= Len(issued) + 1
          /\ (pc = "await" /\ result'.tag = "err") => issued' = issued /\ chan' = <<>>]_vars

\* a request that ended on a channel error was the only one of its command
C18_Witness ==
    /\ result.route = "command" /\ result.tag = "err"
    /\ lastReply = ChannelError /\ Len(issued) = 1 /\ chan = <<>>

\* the bid goes from the reply of one of its steps to the request of the next
BidAdvances ==
    /\ pc = "await" /\ cur.route = "bid"
    /\ pc' = "await" /\ Len(issued') = Len(issued) + 1

\* C19: every key hash the election bid sends comes from the remote: exportpub,
\* addpermkey, addtempkey and sign carry the hash the first newkey returned,
\* addadnl and addvalidatoraddr and the address field of the bytes to sign and
\* of the payload carry the hash the second newkey returned.
C19_KeysFromRemote ==
    /\ [](\A i \in 1..Len(BidLog) :
             /\ BidLog[i].step \in {2, 3, 8} => BidLog[i].query.key_hash = cur.bid.perm
             /\ BidLog[i].step = 4 =>
                   /\ BidLog[i].query.permanent_key_hash = cur.bid.perm
                   /\ BidLog[i].query.key_hash = cur.bid.perm
             /\ BidLog[i].step = 6 => BidLog[i].query.key_hash = cur.bid.adnl
             /\ BidLog[i].step = 7 =>
                   /\ BidLog[i].query.permanent_key_hash = cur.bid.perm
                   /\ BidLog[i].query.key_hash = cur.bid.adnl
             /\ BidLog[i].step = 8 =>
                   SubSeq(BidLog[i].query.data, Len(BidLog[i].query.data) - HASH_LEN + 1,
                          Len(BidLog[i].query.data)) = cur.bid.adnl)
    /\ []((result.route = "bid" /\ result.tag = "ok") =>
             SubSeq(BidPayload, Len(BidPayload) - HASH_LEN + 1, Len(BidPayload)) = cur.bid.adnl)
    /\ [][/\ BidAdvances =>
                /\ cur'.bid.perm = IF cur.step = 1 THEN lastReply'.answer.key_hash
                                                   ELSE cur.bid.perm
                /\ cur'.bid.adnl = IF cur.step = 5 THEN lastReply'.answer.key_hash
                                                   ELSE cur.bid.adnl
          /\ (pc = "await" /\ cur.route = "bid" /\ pc' # "await") => cur'.bid = cur.bid]_vars

\* a bid has succeeded with two different keys from the remote
C19_Witness ==
    /\ result.route = "bid" /\ result.tag = "ok"
    /\ cur.bid.perm \in Keys /\ cur.bid.adnl \in Keys /\ cur.bid.perm # cur.bid.adnl

\* C20: step 4 of the bid registers the permanent key again as the temporary
\* key: its addtempkey request carries the hash of step 1 as permanent_key_hash
\* and as key_hash, and it runs out when the permanent key of step 3 does, at
\* expire_time (election_date + ttl for step 3, now() + ttl for step 4).
C20_TempKeyMatchesPerm ==
    /\ [](\A i \in 1..Len(BidLog) :
             BidLog[i].step = 4 =>
                 /\ BidLog[i].name = "addtempkey"
                 /\ BidLog[i].query.permanent_key_hash = cur.bid.perm
                 /\ BidLog[i].query.key_hash = cur.bid.perm
                 /\ BidLog[i - 1].name = "addpermkey"
                 /\ BidLog[i - 1].query.key_hash = cur.bid.perm
                 /\ BidLog[i - 1].query.election_date + BidLog[i - 1].query.ttl
                       = cur.bid.expire_time
                 /\ BidLine => cur.bid.expire_time = int_from_str(cmd[3]).val)
    /\ [][(BidAdvances /\ cur.step = 3) =>
            clock + issued'[Len(issued')].query.ttl = cur'.bid.expire_time]_vars

\* the temporary key is being registered after the clock has moved on
C20_Witness ==
    /\ pc = "await" /\ cur.route = "bid" /\ cur.step = 4
    /\ clock > Now0 /\ issued[Len(issued)].query.ttl > 0

\* C21: step 6 of the bid binds the second key as an address of category 0,
\* and step 7 associates that address key with the permanent key for the
\* election window: the association runs out at expire_time (now() + ttl of the
\* addvalidatoraddr request), when the permanent key of step 3 does.
C21_AddressForWindow ==
    /\ [](\A i \in 1..Len(BidLog) :
             /\ BidLog[i].step = 6 =>
                   /\ BidLog[i].name = "addadnl"
                   /\ BidLog[i].query.key_hash = cur.bid.adnl
                   /\ BidLog[i].query.category = 0
             /\ BidLog[i].step = 7 =>
                   /\ BidLog[i].name = "addvalidatoraddr"
                   /\ BidLog[i].query.permanent_key_hash = cur.bid.perm
                   /\ BidLog[i].query.key_hash = cur.bid.adnl
                   /\ BidLog[3].query.election_date + BidLog[3].query.ttl
                         = cur.bid.expire_time)
    /\ [][(BidAdvances /\ cur.step = 6) =>
            clock + issued'[Len(issued')].query.ttl = cur'.bid.expire_time]_vars

\* C22: the bytes the remote is asked to sign in step 8 of the command sequence
\* are the tag 0x654C5074, elect_time and max_factor as 4 bytes big-endian each,
\* the 32 bytes of the wallet id and the 32 bytes of the address key hash, 76
\* bytes for every input the bid accepts, and the sign request names the
\* permanent key hash of step 1.
C22_SignedBytes ==
    \A i \in 1..Len(BidLog) :
        BidLog[i].step = BidSteps =>
            /\ BidLog[i].name = "sign"
            /\ BidLog[i].query.key_hash = cur.bid.perm
            /\ BidLog[1].name = "newkey" /\ cur.bid.perm \in Keys
            /\ Len(BidLog[i].query.data) = 76
            /\ SubSeq(BidLog[i].query.data, 1, 4) = <<101, 76, 80, 116>>
            /\ SubSeq(BidLog[i].query.data, 5, 8) = BE4(cur.bid.elect_time)
            /\ SubSeq(BidLog[i].query.data, 9, 12) = BE4(cur.bid.max_factor)
            /\ SubSeq(BidLog[i].query.data, 13, 44) = cur.bid.wallet_id
            /\ SubSeq(BidLog[i].query.data, 45, 76) = cur.bid.adnl
            /\ BidLine => cur.bid.elect_time = int_from_str(cmd[2]).val

\* the bytes the sign request of the bid carried
SignedBytes == BidLog[BidSteps].query.data

\* C23: the election bid succeeds only if the signature the remote returned
\* verifies under the public key exported in step 2 over the very bytes sent in
\* the sign request: a signature over bytes that differ in one byte (the first
\* or the last), or one made with another key, makes the bid fail with the
\* signature error.
C23_SignatureDecides ==
    /\ []((result.route = "bid" /\ result.tag = "ok") =>
             /\ SignReply
             /\ lastReply.answer.signature.signer = cur.bid.pub_key
             /\ lastReply.answer.signature.over = SignedBytes)
    /\ []((AfterSign /\ SignReply
             /\ \/ lastReply.answer.signature.signer # cur.bid.pub_key
                \/ lastReply.answer.signature.over # SignedBytes) =>
             result.tag = "err" /\ result.val.msg = "bad signature")
    /\ [][/\ (BidAdvances /\ cur.step = 2) =>
                cur'.bid.pub_key = lastReply'.answer.key[1]
          /\ (BidAdvances /\ cur.step # 2) => cur'.bid.pub_key = cur.bid.pub_key]_vars

\* a bid got a signature of the exported key over bytes whose last byte differs
\* from the one sent, and has failed
C23_Witness ==
    /\ AfterSign /\ SignReply
    /\ lastReply.answer.signature.signer = cur.bid.pub_key
    /\ lastReply.answer.signature.over = CorruptLast(SignedBytes)
    /\ result.tag = "err" /\ result.val.msg = "bad signature"

\* the tree of cells a successful bid has written
BidCell == writes[Len(writes)].data[1].boc

\* C24: the payload of a successful bid is a root cell holding the tag
\* 0x4E73744B, the query id (8 bytes, the time when it is built), the public key
\* of step 2 (32 bytes), elect_time, max_factor and the address key hash, with
\* the verified signature as its only referenced cell; elect_time, max_factor
\* and the address key are those of the signed bytes, and the serialized
\* payload takes 164 bytes in every successful run.
C24_PayloadLayout ==
    /\ []((result.route = "bid" /\ result.tag = "ok") =>
             /\ Len(BidPayload) = 84
             /\ SubSeq(BidPayload, 1, 4) = <<78, 115, 116, 75>>
             /\ SubSeq(BidPayload, 13, 44) = cur.bid.pub_key
             /\ Len(cur.bid.pub_key) = HASH_LEN
             /\ SubSeq(BidPayload, 45, 52) = SubSeq(SignedBytes, 5, 12)
             /\ SubSeq(BidPayload, 45, 48) = BE4(cur.bid.elect_time)
             /\ SubSeq(BidPayload, 49, 52) = BE4(cur.bid.max_factor)
             /\ SubSeq(BidPayload, 53, 84) = cur.bid.adnl
             /\ SubSeq(BidPayload, 53, 84)
                   = SubSeq(SignedBytes, Len(SignedBytes) - HASH_LEN + 1, Len(SignedBytes))
             /\ Len(BidCell.refs) = 1
             /\ BidCell.refs[1].data = lastReply.answer.signature
             /\ BidCell.refs[1].refs = <<>>
             /\ writes[Len(writes)].data[1].len = 164
             /\ result.val.bytes = writes[Len(writes)].data)
    /\ [][(pc = "await" /\ result'.route = "bid" /\ result'.tag = "ok") =>
            SubSeq(writes'[Len(writes')].data[1].boc.data, 5, 12) = BE8(clock)]_vars

\* the file a successful bid has written
BidFile == writes[Len(writes)]

\* C25: a successful election bid writes the serialized payload to the path of
\* its trailing parameter, or to validator-query.boc when there is none, and
\* returns (text, bytes): bytes are the bytes written, and text holds their
\* base64 encoding and the path written.
C25_BidOutput ==
    (result.route = "bid" /\ result.tag = "ok") =>
        /\ Len(writes) = 1
        /\ BidFile.path = IF Len(cmd) >= 4 THEN cmd[4] ELSE DefaultBidPath
        /\ DOMAIN files = DOMAIN InitFiles \cup {BidFile.path}
        /\ files[BidFile.path] = BidFile.data
        /\ BidFile.data = serialize_toc(BidCell)
        /\ result.val.bytes = BidFile.data
        /\ Len(result.val.text) = 4
        /\ result.val.text[2] = [base64 |-> BidFile.data]
        /\ result.val.text[4] = BidFile.path

\* the index given on the line of a config-param extraction
ConfigIndex == int_from_str(cmd[2]).val

\* a config-param extraction has returned that was given a valid index and the
\* zerostate file z
ConfigRun(z) ==
    /\ result.route = "config_param" /\ Len(cmd) >= 3 /\ cmd[3] = z
    /\ IsOk(int_from_str(cmd[2])) /\ ConfigIndex >= 0

\* the config params of the sample zerostate
SampleParams == SampleState.custom[1]

\* C26: config-param extraction for an index that is not in the configuration
\* map fails with the not-found error and leaves the file system as it was;
\* more generally the output file is written only when the lookup, the
\* reference and the serialization have all succeeded, so a failed extraction
\* writes nothing.
C26_NoFileOnFailure ==
    /\ (ConfigRun(ZsPath) /\ ConfigIndex \notin DOMAIN SampleParams) =>
          /\ result.tag = "err" /\ result.val.msg = "Can't find config param"
          /\ writes = <<>> /\ files = InitFiles
    /\ (result.route = "config_param" /\ result.tag # "ok") =>
          writes = <<>> /\ files = InitFiles
    /\ (result.route = "config_param" /\ (writes # <<>> \/ files # InitFiles)) =>
          /\ result.tag = "ok" /\ ConfigRun(ZsPath)
          /\ ConfigIndex \in DOMAIN SampleParams
          /\ SampleParams[ConfigIndex].refs # <<>>
          /\ Len(writes) = 1
          /\ DOMAIN files = DOMAIN InitFiles \cup {writes[1].path}
          /\ \A q \in DOMAIN InitFiles : q # writes[1].path => files[q] = InitFiles[q]

\* an extraction with an output path has failed on an index that is not there
C26_Witness ==
    /\ ConfigRun(ZsPath) /\ Len(cmd) = 4 /\ cmd[4] = OutPath /\ ConfigIndex = 9
    /\ result.val.msg = "Can't find config param" /\ files = InitFiles

\* C27: config-param extraction tells its failures apart: a state without the
\* extra-configuration sub-tree gives the structure error, an index that is not
\* in the map the not-found error, an entry without a first referenced cell the
\* format error ("no reference"); on success the entry's first referenced cell,
\* and nothing else, is serialized and written to the path of the trailing
\* parameter or to config-param.boc.
C27_ConfigParamOutcomes ==
    /\ ConfigRun(NoExtraPath) =>
          result.tag = "err" /\ result.val.msg = "Can't find McStateExtra in zerostate"
    /\ (ConfigRun(ZsPath) /\ ConfigIndex \notin DOMAIN SampleParams) =>
          result.tag = "err" /\ result.val.msg = "Can't find config param"
    /\ (ConfigRun(ZsPath) /\ ConfigIndex \in DOMAIN SampleParams
          /\ SampleParams[ConfigIndex].refs = <<>>) =>
          /\ result.tag = "err" /\ result.val.msg = "Can't parse config param"
          /\ result.val.cause = "wrong format - no reference"
    /\ (ConfigRun(ZsPath) /\ ConfigIndex \in DOMAIN SampleParams
          /\ SampleParams[ConfigIndex].refs # <<>>
          /\ (Len(cmd) >= 4 => cmd[4] # NoDirPath)) =>
          /\ result.tag = "ok"
          /\ Len(writes) = 1
          /\ writes[1].path = IF Len(cmd) >= 4 THEN cmd[4] ELSE DefaultConfigPath
          /\ writes[1].data = serialize_toc(SampleParams[ConfigIndex].refs[1])
          /\ files[writes[1].path] = writes[1].data
          /\ result.val.bytes = writes[1].data
          /\ ConfigIndex = 23 => writes[1].data[1].len = 53

\* the first of the two cells an entry refers to has been written to the
\* default path
C27_Witness ==
    /\ ConfigRun(ZsPath) /\ ConfigIndex = 5 /\ Len(cmd) = 3 /\ result.tag = "ok"
    /\ files[DefaultConfigPath] = serialize_toc(CellA)

\* the line handed to command() names a registered command that goes to
\* process_command under its own name
BuilderLine ==
    /\ cmd # <<>> /\ route_of(Head(cmd), variant) = "command"
    /\ Registered(Head(cmd), variant)

\* the arguments a command's request builder requires, by their domain
ArgKinds(name) ==
    CASE name = "exportpub" -> <<"hash">>
      [] name = "sign" -> <<"hash", "data">>
      [] name = "addpermkey" -> <<"hash", "int", "int">>
      [] name \in {"addtempkey", "addvalidatoraddr"} -> <<"hash", "hash", "int">>
      [] name = "addadnl" -> <<"hash", "int">>
      [] name \in {"bundle", "future_bundle"} -> <<"blockid">>
      [] name \in {"sendmessage", "getaccountstate"} -> <<"text">>
      [] OTHER -> <<>>

\* the text is in the domain of the argument
ArgParses(kind, tok) ==
    CASE kind = "hash" -> IsOk(int256_value(tok))
      [] kind = "int" -> IsOk(int_from_str(tok))
      [] kind = "data" -> IsOk(hex_decode(tok))
      [] kind = "blockid" -> tok = BlockIdText
      [] OTHER -> TRUE

\* an argument that is there does not parse
BadArg ==
    \E i \in 1..Len(ArgKinds(Head(cmd))) :
        i < Len(cmd) /\ ~ArgParses(ArgKinds(Head(cmd))[i], cmd[i + 1])

\* every argument that is there parses, and a required one is not there
MissingArg == ~BadArg /\ Len(cmd) - 1 < Len(ArgKinds(Head(cmd)))

\* the class of the error a request builder returned
ErrorClass(e) ==
    IF e.cause = "insufficient parameters" THEN "ParameterError"
    ELSE IF e.msg = "you must give" THEN "FormatError"
    ELSE "other"

\* C28: a request builder fails with the parameter error when a required
\* argument is missing and with the format error when an argument that is
\* there does not parse in its domain (hex, base64, integer); the two errors
\* are of different classes, and in both cases nothing is sent.
C28_BuilderErrors ==
    /\ (BuilderLine /\ MissingArg) =>
          /\ result.tag = "err" /\ ErrorClass(result.val) = "ParameterError"
          /\ issued = <<>> /\ chan = <<>> /\ pc # "await"
    /\ (BuilderLine /\ BadArg) =>
          /\ result.tag = "err" /\ ErrorClass(result.val) = "FormatError"
          /\ issued = <<>> /\ chan = <<>> /\ pc # "await"

\* the commands that leave the reply to the default receive
DefaultNames == {"addpermkey", "addtempkey", "addvalidatoraddr", "addadnl", "bundle",
                 "future_bundle", "sendmessage"}

\* the generic-success marker as the channel delivers it
SuccessReply == Arrived([type |-> "Success"])

\* C29: the commands that use the default response parser are addpermkey,
\* addtempkey, addvalidatoraddr, addadnl, bundle, future_bundle and sendmessage;
\* such a command succeeds, with ("success", no bytes), iff the reply is the
\* generic-success marker, and every other reply makes it fail.
C29_DefaultReceive ==
    /\ [](\A i \in 1..Len(RegistryBin) :
             (command_receive(RegistryBin[i], [type |-> "Success"], <<HexK1, OutPath>>, "bin")
                 = Answered(<<"success">>, <<>>, None))
             <=> RegistryBin[i] \in DefaultNames)
    /\ [][(pc = "await" /\ clock' = clock /\ cur.name \in DefaultNames) =>
            /\ (parsed' = parsed + 1) <=> (lastReply' = SuccessReply)
            /\ lastReply' # SuccessReply =>
                  /\ pc' # "await" /\ result'.tag = "err" /\ parsed' = parsed
                  /\ issued' = issued
            /\ cur.route = "command" =>
                  /\ pc' # "await"
                  /\ (result'.tag = "ok") <=> (lastReply' = SuccessReply)
                  /\ result'.tag = "ok" =>
                        result'.val = [text |-> <<"success">>, bytes |-> <<>>]]_vars

\* future_bundle has succeeded on the generic-success marker with no bytes
C29_Witness ==
    /\ cmd # <<>> /\ Head(cmd) = "future_bundle" /\ result.route = "command"
    /\ lastReply = SuccessReply /\ result.tag = "ok" /\ result.val.bytes = <<>>

\* the line handed to command() is sign with the hash text h and the hex data
\* 0A4D
SignLine(h) == cmd = <<"sign", h, <<"0", "A", "4", "D">> >>

\* C30: sign <hash> <hex-data> asks the remote with key_hash the 32 bytes the
\* hash text decodes to and data the bytes the hex text decodes to (0A4D gives
\* 0x0A 0x4D); on a signature reply the raw bytes returned are the signature
\* buffer as it came, and the report holds its hex and its base64 text.
C30_SignRoundTrip ==
    \A h \in {HexK1, B64K1} :
        SignLine(h) =>
            /\ Len(issued) = 1
            /\ issued[1].query = [type |-> "Sign", key_hash |-> Key(1), data |-> <<10, 77>>]
            /\ Len(issued[1].query.key_hash) = HASH_LEN
            /\ SignReply =>
                  /\ result.tag = "ok"
                  /\ result.val.bytes = lastReply.answer.signature
                  /\ Len(result.val.bytes.buf) = SIGNATURE_LEN
                  /\ Len(result.val.text) = 3
                  /\ hex_decode(result.val.text[2]) = Ok(lastReply.answer.signature.buf)
                  /\ base64_decode(result.val.text[3]) = Ok(lastReply.answer.signature.buf)

\* sign with a base64 hash has returned the signature it got
C30_Witness ==
    /\ SignLine(B64K1) /\ SignReply /\ result.tag = "ok"
    /\ issued[1].query.data = <<10, 77>>
    /\ result.val.bytes = Sig(Key(4), <<10, 77>>)

\* C31: get_validator_status is a command of a connected session: a request is
\* built and sent for it, it fails only when the reply is a failure, and on an
\* answer it returns the validator's status as raw bytes.
C31_ValidatorStatus ==
    cmd = <<"get_validator_status">> =>
        /\ Registered("get_validator_status", variant)
        /\ Len(issued) = 1
        /\ result.tag = "err" => lastReply # NoReply
        /\ result.tag = "ok" => result.val.bytes # <<>>

\* the file a recover_stake has written
RecoverFile == writes[1]

\* C32: recover_stake asks the remote nothing: it builds the 12-byte body of
\* the tag 0x47657424 and the query id (8 bytes big-endian, the time when it
\* runs), serializes it to 25 bytes, writes them to the path of its trailing
\* parameter or to recover-query.boc, and returns the bytes it wrote.
C32_RecoverStake ==
    /\ [](result.route = "recover_stake" =>
             issued = <<>> /\ chan = <<>> /\ pc # "await" /\ lastReply = NoReply)
    /\ []((result.route = "recover_stake" /\ result.tag = "ok") =>
             /\ Len(writes) = 1
             /\ RecoverFile.path = IF Len(cmd) >= 2 THEN Unquote(cmd[2]) ELSE DefaultRecoverPath
             /\ Len(RecoverFile.data[1].boc.data) = 12
             /\ SubSeq(RecoverFile.data[1].boc.data, 1, 4) = <<71, 101, 116, 36>>
             /\ RecoverFile.data[1].boc.refs = <<>>
             /\ RecoverFile.data[1].len = 25
             /\ DOMAIN files = DOMAIN InitFiles \cup {RecoverFile.path}
             /\ files[RecoverFile.path] = RecoverFile.data
             /\ result.val.bytes = RecoverFile.data)
    /\ [][(writes' # writes /\ result'.route = "recover_stake" /\ result'.tag = "ok") =>
            SubSeq(writes'[1].data[1].boc.data, 5, 12) = BE8(clock)]_vars

\* recover_stake has run a second after the start and written to the path it
\* was given
C32_Witness ==
    /\ result.route = "recover_stake" /\ result.tag = "ok" /\ Len(cmd) = 2
    /\ files[OutPath] = writes[1].data
    /\ SubSeq(writes[1].data[1].boc.data, 5, 12) = BE8(Now0 + 1)

\* C33: the interactive loop ends exactly when the quit line is read: every
\* other line that is not empty is run as one command and the loop reads on,
\* whatever the command returned; on quit no command is run any more and the
\* session is shut down; the program never ends in another way once the loop
\* is entered.
C33_QuitEndsLoop ==
    /\ []((mode = "interactive" /\ Ended) => pc = "exit" /\ conn \in ShutdownResults)
    /\ [][mode = "interactive" =>
            /\ (pc' = "exit" /\ pc # "exit") =>
                  /\ script # <<>> /\ Head(script) = <<"quit">>
                  /\ conn' \in ShutdownResults
                  /\ <<cmd, issued, result, files>>' = <<cmd, issued, result, files>>
            /\ (script' # script /\ Head(script) \notin {<<>>, <<"quit">>}) =>
                  /\ script' = Tail(script) /\ cmd' = Head(script)
                  /\ pc' \in {"main", "await"}
            /\ (pc = "await" /\ pc' # "await") => pc' = "main"
            /\ pc = "exit" => pc' = "exit" /\ issued' = issued]_vars

\* the number of parameters a registered command needs
RequiredParams(name) ==
    IF name = "getaccountstate" THEN 2 ELSE Len(ArgKinds(name))

\* C34: for every registered command a required parameter that is missing is
\* found while the request is built: the command fails with an error and
\* nothing has been sent; no command finds a parameter missing only after its
\* request has been sent and answered.
C34_MissingFoundBeforeSend ==
    (BuilderLine /\ Len(cmd) - 1 < RequiredParams(Head(cmd))) =>
        /\ issued = <<>> /\ chan = <<>> /\ pc # "await"
        /\ result.tag = "err"

\* C35: ControlClient::command returns Ok or Err for every command string and
\* never ends the session by a panic; in particular the empty command string,
\* which splits into no words, gives an error value, in batch mode and in
\* interactive mode of both variants.
C35_CommandNeverPanics ==
    /\ [](result.tag # "panic")
    /\ [](conn # "Disconnected" => pc # "panicked")
    /\ [][(pc = "main" /\ conn = "Connected" /\ cmd' = <<>> /\ result' # result) =>
            result'.tag = "err" /\ pc' = "main"]_vars

\* C36: the TTL subtraction of a key-addition request never leaves the 32-bit
\* signed range: for every expire_at and anchor (election_date, or now()) that
\* parse_int accepts, the request carries no wrapped difference and the build
\* never stops on an overflowing subtraction; such an input is rejected with
\* an error instead.
C36_TtlNoOverflow ==
    /\ [](result.tag = "panic" => result.val # "attempt to subtract with overflow")
    /\ [][(pc' = "await" /\ clock' = clock) =>
            LET e == issued'[Len(issued')] IN
            /\ e.name = "addpermkey" =>
                  ~SubOverflows(int_from_str(e.ps[3]).val, int_from_str(e.ps[2]).val)
            /\ e.name \in {"addtempkey", "addvalidatoraddr"} =>
                  ~SubOverflows(int_from_str(e.ps[3]).val, clock)]_vars

\* the words command() of src/bin/console.rs splits its line into
CmdWords == shell_words_split(cmd).val

\* the workflow command() has entered for the line
RouteTaken == IF pc = "await" THEN cur.route ELSE result.route

BidNames == {"ebid", "election-bid", "election_bid"}
ConfigNames == {"config_param", "cparam"}

\* C37: command() of src/bin/console.rs routes by the first word only: ebid,
\* election-bid and election_bid run the election bid, config_param and cparam
\* the config-param extraction, recover_stake the local builder, and every
\* other first word goes to the registry as one request/response command; the
\* words behind the first are handed on in their order.
C37_RouteByFirstWord ==
    (variant = "bin" /\ cmd # <<>> /\ IsOk(shell_words_split(cmd))) =>
        /\ Head(cmd) \in BidNames =>
              /\ RouteTaken = "bid"
              /\ issued # <<>> =>
                    /\ cur.bid.elect_time = int_from_str(CmdWords[2]).val
                    /\ cur.bid.expire_time = int_from_str(CmdWords[3]).val
                    /\ cur.bid.path = Nth(CmdWords, 4)
        /\ Head(cmd) \in ConfigNames =>
              /\ RouteTaken = "config_param" /\ issued = <<>>
              /\ result.tag = "ok" =>
                    /\ Len(CmdWords) >= 3 /\ fs_read(InitFiles, CmdWords[3]).tag = "ok"
                    /\ writes[1].path = IF Len(CmdWords) >= 4 THEN CmdWords[4]
                                        ELSE DefaultConfigPath
        /\ Head(cmd) = "recover_stake" =>
              /\ RouteTaken = "recover_stake" /\ issued = <<>>
              /\ result.tag = "ok" =>
                    writes[1].path = IF Len(CmdWords) >= 2 THEN CmdWords[2]
                                     ELSE DefaultRecoverPath
        /\ Head(cmd) \notin BidNames \cup ConfigNames \cup {"recover_stake"} =>
              /\ RouteTaken = "command"
              /\ Len(issued) <= 1
              /\ \A i \in 1..Len(issued) :
                    issued[i].name = Head(cmd) /\ issued[i].ps = Tail(CmdWords)
              /\ ~Registered(Head(cmd), variant) => issued = <<>> /\ result.tag = "err"

\* the short name of the bid has entered the bid workflow, which has refused
\* the election time it was given
C37_Witness ==
    /\ variant = "bin" /\ cmd = <<"ebid", FormatInt(0), Later>>
    /\ result.route = "bid" /\ result.tag = "err"
    /\ result.val.msg = "<elect-utime> must be a positive integer"

\* the node the loop asks next has been recorded as non-responsive before
AsksBadNode ==
    /\ probe.pc = "query" /\ probe.index < Len(probe.nodes)
    /\ Contains(probe.bad_nodes, probe.nodes[probe.index + 1])

\* C38: in the scan loop of adnl_resolve nodes[index] is in bounds whenever it
\* is read, and a node that was moved to bad_nodes is never asked again with
\* find_dht_nodes, neither in the current list nor after a refill.
C38_BadNodesNotAsked ==
    /\ probe.pc = "query" => probe.index < Len(probe.nodes)
    /\ probe.outcome # "index out of bounds"
    /\ ~AsksBadNode

\* C39: the scan loop ends only with success (the address was found), with
\* "No good DHT peers" when the refill finds every known node in bad_nodes, or
\* with a DHT error handed on; when the address is never found and no node
\* answers, it ends with "No good DHT peers".
C39_ScanTerminates ==
    /\ [](probe.outcome \in {"running", "found", "No good DHT peers", "DHT error"})
    /\ [](probe.pc = "done" <=> probe.outcome # "running")
    /\ [](probe.outcome = "No good DHT peers" =>
            /\ probe.nodes = <<>>
            /\ \A k \in probe.known : Contains(probe.bad_nodes, k))
    /\ (probe.responsive = {} /\ [](probe.outcome \notin {"found", "DHT error"})) =>
            <>(probe.outcome = "No good DHT peers")

\* two nodes of the config, neither answering, have both been moved to
\* bad_nodes and the loop has ended for want of peers
C39_Witness ==
    /\ probe.name = "scan" /\ probe.responsive = {}
    /\ probe.outcome = "No good DHT peers"
    /\ probe.bad_nodes = <<1, 2>>

\* the code of a line: its text outside string literals, up to a // comment
RECURSIVE CodeOf(_, _)
CodeOf(s, inText) ==
    IF s = <<>> THEN <<>>
    ELSE IF Head(s) = "\"" THEN CodeOf(Tail(s), ~inText)
    ELSE IF inText THEN CodeOf(Tail(s), inText)
    ELSE IF Len(s) >= 2 /\ s[1] = "/" /\ s[2] = "/" THEN <<>>
    ELSE <<Head(s)>> \o CodeOf(Tail(s), inText)

\* where a reader of the source stands: copying, behind a #[cfg(test)] whose
\* item has not begun, or inside the item at some brace depth
ReadStart == [mode |-> "copy", depth |-> 0, kept |-> <<>>, nested |-> TRUE]

\* a line of the annotated item: the item ends with the line that ends in
\* ; , or } with no brace open
ItemLine(r, depth, code) ==
    IF depth < 0 THEN [r EXCEPT !.nested = FALSE]
    ELSE IF depth = 0 /\ code[Len(code)] \in {";", ",", "}"} THEN [r EXCEPT !.mode = "copy", !.depth = 0]
    ELSE [r EXCEPT !.mode = "item", !.depth = depth]

ReadLine(r, line, code) ==
    CASE r.mode = "copy" ->
            IF ~IsPrefix(CfgTest, code) THEN [r EXCEPT !.kept = Append(@, line)]
            ELSE IF count_braces(code) > 0
            THEN [r EXCEPT !.mode = "item", !.depth = count_braces(code)]
            ELSE [r EXCEPT !.mode = "attr", !.nested = count_braces(code) = 0 /\ @]
      [] r.mode = "attr" ->
            IF code = <<>> \/ IsPrefix(<<"#", "[">>, code) THEN r
            ELSE ItemLine(r, count_braces(code), code)
      [] r.mode = "item" ->
            IF code = <<>> THEN r ELSE ItemLine(r, r.depth + count_braces(code), code)

RECURSIVE ReadLines(_, _)
ReadLines(r, lines) ==
    IF lines = <<>> THEN r
    ELSE ReadLines(ReadLine(r, Head(lines), to_lowercase(trim(CodeOf(Head(lines), FALSE)))),
                   Tail(lines))

\* the lines of the file that belong to no #[cfg(test)] item, in their order
OutsideTests(lines) == ReadLines(ReadStart, lines).kept

\* the braces of the file's test items are balanced
WellNested(lines) == ReadLines(ReadStart, lines).nested

\* a is b with some of its elements left out
RECURSIVE IsSubseq(_, _)
IsSubseq(a, b) ==
    IF a = <<>> THEN TRUE
    ELSE IF b = <<>> THEN FALSE
    ELSE IF Head(a) = Head(b) THEN IsSubseq(Tail(a), Tail(b))
    ELSE IsSubseq(a, Tail(b))

\* C40: notests copies every line that belongs to no #[cfg(test)] item to the
\* output, unchanged and in order, copying again once the braces of the item
\* skipped are closed; the file is replaced by the output only when the whole
\* file was parsed without error, and is left as it was otherwise.
C40_StripsOnlyTests ==
    (probe.name = "notests" /\ probe.done /\ WellNested(probe.file)) =>
        /\ probe.parsed.tag = "ok" =>
              /\ IsSubseq(OutsideTests(probe.file), probe.parsed.tmp)
              /\ IsSubseq(probe.parsed.tmp, probe.file)
              /\ probe.after = probe.parsed.tmp
        /\ probe.parsed.tag # "ok" => probe.after = probe.file

====
